---- MODULE Spec2Model ----
(***************************************************************************)
(* Fleet telemetry backend: the ingest handler (mqtt-service.js), the      *)
(* vehicle cache (vehicle-store.js), the rate window (message-metrics.js)  *)
(* and the WebSocket fan-out (websocket-service.js), wired as in the       *)
(* backend entry point.                                                    *)
(*                                                                         *)
(* Numbers: JavaScript doubles are modelled by integers.  Instants are     *)
(* epoch milliseconds; an ISO-8601 string is the record                    *)
(* [kind |-> "iso", ms |-> n]; distances are whole kilometres and the      *)
(* division of computeSpeed is integer division.                           *)
(***************************************************************************)
EXTENDS Integers, Sequences, FiniteSets, TLC

VARIABLES now, map, onExpire, totalMessages, invalidMessages,
          messageTimestamps, clients, sock, delivered, produced, lastOp, writes,
          vehicles, events, distanceCache, rollups, uncaught, call, stream,
          grpc, proc, sim, client

\* the telemetry database, the exceptions that left the ingest handler, the
\* last call made on the repository, the live snapshot stream, the registry of
\* gRPC streams, the backend process, the simulator process and the
\* dashboard's WebSocket client
repoVars == <<vehicles, events, distanceCache, rollups, uncaught, call, stream,
              grpc, proc, sim, client>>

vars == <<now, map, onExpire, totalMessages, invalidMessages,
          messageTimestamps, clients, sock, delivered, produced, lastOp, writes,
          vehicles, events, distanceCache, rollups, uncaught, call, stream,
          grpc, proc, sim, client>>

(***************************************************************************)
(* Bounds of the model.                                                    *)
(***************************************************************************)
MaxClock == 2
MaxMessages == 3
MaxFanout == 2
MaxWrites == 4
CacheLimit == 2
VehicleTtlMs == 2
MessageWindowMs == 2
PayloadBytes == 600000

(***************************************************************************)
(* Program constants.                                                      *)
(***************************************************************************)
MAX_BUFFERED_BYTES == 512 * 1024
EarthRadiusKm == 6371
MsPerHour == 3600000
ENGINE_STATUS_VALUES == {"running", "idle", "off"}

Sockets == {"s1", "s2"}

(***************************************************************************)
(* JavaScript values.                                                      *)
(***************************************************************************)
NaN == -1000000

Undefined == [kind |-> "undefined", n |-> 0, s |-> ""]
JsNull == [kind |-> "null", n |-> 0, s |-> ""]
JsNum(n) == [kind |-> "number", n |-> n, s |-> ""]
JsStr(s) == [kind |-> "string", n |-> 0, s |-> s]
\* a string that is the ISO-8601 rendering of the instant ms
JsIso(ms) == [kind |-> "iso", n |-> ms, s |-> ""]

ToISOString(ms) == [kind |-> "iso", ms |-> ms]
NotADate == [kind |-> "text", ms |-> 0]
DateParse(str) == IF str.kind = "iso" THEN str.ms ELSE NaN
IsFinite(x) == x # NaN

\* new Date(v).valueOf()
DateValue(v) ==
  CASE v.kind = "number" -> v.n
    [] v.kind = "iso" -> v.n
    [] OTHER -> NaN

\* String.prototype.trim on the strings of the model
Trim(s) ==
  CASE s = " v1" -> "v1"
    [] s = "v2 " -> "v2"
    [] s = "  " -> ""
    [] OTHER -> s

\* String.prototype.toLowerCase on the strings of the model
ToLowerCase(s) ==
  CASE s = "RUNNING" -> "running"
    [] s = "Idle" -> "idle"
    [] s = "OFF" -> "off"
    [] OTHER -> s

Abs(x) == IF x < 0 THEN 0 - x ELSE x

(***************************************************************************)
(* validation.js                                                           *)
(***************************************************************************)
isFiniteNumber(value) == value.kind = "number"

validateTelemetry(payload) ==
  IF payload.kind # "object" THEN [ok |-> FALSE, error |-> "payload"]
  ELSE IF payload.vehicleId.kind # "string" \/ Trim(payload.vehicleId.s) = ""
    THEN [ok |-> FALSE, error |-> "vehicleId"]
  ELSE IF ~isFiniteNumber(payload.lat) \/ payload.lat.n < -90 \/ payload.lat.n > 90
    THEN [ok |-> FALSE, error |-> "lat"]
  ELSE IF ~isFiniteNumber(payload.lng) \/ payload.lng.n < -180 \/ payload.lng.n > 180
    THEN [ok |-> FALSE, error |-> "lng"]
  ELSE IF payload.ts.kind \in {"undefined", "null"}
    THEN [ok |-> FALSE, error |-> "ts required"]
  ELSE IF DateValue(payload.ts) = NaN
    THEN [ok |-> FALSE, error |-> "ts"]
  ELSE IF ~isFiniteNumber(payload.fuelLevel) \/ payload.fuelLevel.n < 0
          \/ payload.fuelLevel.n > 100
    THEN [ok |-> FALSE, error |-> "fuelLevel"]
  ELSE IF payload.engineStatus.kind # "string"
          \/ ToLowerCase(payload.engineStatus.s) \notin ENGINE_STATUS_VALUES
    THEN [ok |-> FALSE, error |-> "engineStatus"]
  ELSE [ok |-> TRUE,
        value |-> [vehicleId |-> Trim(payload.vehicleId.s),
                   lat |-> payload.lat.n,
                   lng |-> payload.lng.n,
                   ts |-> ToISOString(DateValue(payload.ts)),
                   fuelLevel |-> payload.fuelLevel.n,
                   engineStatus |-> ToLowerCase(payload.engineStatus.s)]]

\* JSON.parse of the payload text: the text either is JSON or is not
tryParseJson(raw) ==
  IF raw.json THEN [ok |-> TRUE, value |-> raw.value]
  ELSE [ok |-> FALSE, error |-> "invalid_json"]

(***************************************************************************)
(* vehicle-store.js: the Map keeps its keys in insertion order; it is the  *)
(* sequence of its [key, value] pairs, oldest first.                       *)
(***************************************************************************)
limit == CacheLimit
ttlMs == VehicleTtlMs

Keys(m) == {m[i].key : i \in 1..Len(m)}
KeySeq(m) == [i \in 1..Len(m) |-> m[i].key]
MapHas(m, id) == id \in Keys(m)
MapGet(m, id) ==
  IF MapHas(m, id) THEN (CHOOSE i \in 1..Len(m) : m[i].key = id) ELSE 0
MapDelete(m, id) == SelectSeq(m, LAMBDA e : e.key # id)
\* Map.prototype.set: a present key keeps its position
MapSet(m, id, value) ==
  IF MapHas(m, id)
    THEN [i \in 1..Len(m) |-> IF m[i].key = id THEN [key |-> id, value |-> value] ELSE m[i]]
    ELSE Append(m, [key |-> id, value |-> value])

\* VehicleStore.get: the entry, or Undefined
StoreGet(m, id) == IF MapHas(m, id) THEN m[MapGet(m, id)].value ELSE Undefined

\* set that evicts only from two entries over the limit
StoreSetLateEvict(m, id, value) ==
  LET m1 == IF MapHas(m, id) THEN MapDelete(m, id) ELSE m
      m2 == MapSet(m1, id, value)
  IN IF Len(m2) > limit + 1
       THEN MapDelete(m2, Head(m2).key)
       ELSE m2

\* set that does not remove a present id before writing it
StoreSetInPlace(m, id, value) ==
  LET m2 == MapSet(m, id, value)
  IN IF Len(m2) > limit
       THEN MapDelete(m2, Head(m2).key)
       ELSE m2

\* set that evicts the newest of the older entries instead of the oldest
StoreSetEvictNewest(m, id, value) ==
  LET m1 == IF MapHas(m, id) THEN MapDelete(m, id) ELSE m
      m2 == MapSet(m1, id, value)
  IN IF Len(m2) > limit
       THEN MapDelete(m2, m2[Len(m2) - 1].key)
       ELSE m2

\* VehicleStore.set
StoreSet(m, id, value) ==
  LET m1 == IF MapHas(m, id) THEN MapDelete(m, id) ELSE m
      m2 == MapSet(m1, id, value)
  IN IF Len(m2) > limit
       THEN MapDelete(m2, Head(m2).key)
       ELSE m2

\* a set that hands the entry it evicts to the expiry handler
StoreSetCallsOnEvict(m, id, value) ==
  IF ~MapHas(m, id) /\ Len(m) >= limit /\ Len(m) > 0
    THEN << <<Head(m).key, Head(m).value>> >>
    ELSE <<>>

\* the calls VehicleStore.set makes to this.onExpire: none, the eviction only
\* logs
StoreSetCalls(m, id, value) == <<>>

\* VehicleStore.delete
StoreDelete(m, id) == MapDelete(m, id)

\* expiry that spares an entry exactly ttlMs old
ExpiredIdsStrict(m, t) ==
  LET expired(e) == /\ IsFinite(DateParse(e.value.lastSeen))
                    /\ t - DateParse(e.value.lastSeen) > ttlMs
  IN KeySeq(SelectSeq(m, expired))

\* first loop of pruneExpired: the ids to expire, in iteration order
ExpiredIds(m, t) ==
  LET expired(e) == /\ IsFinite(DateParse(e.value.lastSeen))
                    /\ t - DateParse(e.value.lastSeen) >= ttlMs
  IN KeySeq(SelectSeq(m, expired))

(***************************************************************************)
(* websocket-service.js.  A socket is [readyState, bufferedAmount, inbox]: *)
(* inbox is the sequence of frames handed to socket.send, in order; every  *)
(* send adds the frame to the outbound buffer until the transport drains.  *)
(***************************************************************************)
NullNumber == -2000000

NoSocket == [readyState |-> "NONE", bufferedAmount |-> 0, inbox |-> <<>>]

formatVehiclePayload(vehicle) ==
  [type |-> "vehicle_update",
   vehicleId |-> vehicle.vehicleId,
   position |-> [lat |-> vehicle.lat, lng |-> vehicle.lng],
   telemetry |-> [timestamp |-> vehicle.ts,
                  speed |-> IF IsFinite(vehicle.speed) THEN vehicle.speed ELSE NullNumber,
                  fuelLevel |-> IF IsFinite(vehicle.fuelLevel) THEN vehicle.fuelLevel
                                ELSE NullNumber,
                  engineStatus |-> vehicle.engineStatus],
   lastSeen |-> vehicle.lastSeen]

removalPayload(vehicleId) == [type |-> "vehicle_remove", vehicleId |-> vehicleId]

\* sendPayload without the readyState check
CanSendAnyState(socket) == ~(socket.bufferedAmount > MAX_BUFFERED_BYTES)

\* sendPayload without the buffer check
CanSendUnchecked(socket) == socket.readyState = "OPEN"

\* the two guards of sendPayload; socket.send on an open socket does not throw
CanSend(socket) ==
  /\ socket.readyState = "OPEN"
  /\ ~(socket.bufferedAmount > MAX_BUFFERED_BYTES)

\* a send that queues the frame ahead of the frames already handed over
SocketSendFirst(socket, payload) ==
  [socket EXCEPT !.bufferedAmount = @ + PayloadBytes,
                 !.inbox = <<payload>> \o @]

\* socket.send(payload)
SocketSend(socket, payload) ==
  [socket EXCEPT !.bufferedAmount = @ + PayloadBytes,
                 !.inbox = Append(@, payload)]

\* sendPayload: the socket afterwards (its return value is CanSend before)
sendPayload(socket, payload) ==
  IF CanSend(socket) THEN SocketSend(socket, payload) ELSE socket

\* broadcastPayload: the subscriber set and the sockets afterwards
broadcastPayload(cl, sk, payload) ==
  [clients |-> {s \in cl : CanSend(sk[s])},
   sock |-> [s \in Sockets |-> IF s \in cl THEN sendPayload(sk[s], payload) ELSE sk[s]]]

broadcastUpdate(cl, sk, vehicle) == broadcastPayload(cl, sk, formatVehiclePayload(vehicle))

\* a removal that is not fanned out
broadcastRemovalSkipped(cl, sk, vehicleId) == [clients |-> cl, sock |-> sk]

broadcastRemoval(cl, sk, vehicleId) == broadcastPayload(cl, sk, removalPayload(vehicleId))

\* sendSnapshot: one frame per cached vehicle, stopping at the first refusal
RECURSIVE sendSnapshot(_, _)
sendSnapshot(socket, m) ==
  IF m = <<>> THEN socket
  ELSE IF ~CanSend(socket) THEN socket
  ELSE sendSnapshot(SocketSend(socket, formatVehiclePayload(Head(m).value)), Tail(m))

(***************************************************************************)
(* second loop of pruneExpired, with the handler installed by setOnExpire: *)
(* "broadcastRemoval" (the backend wiring), "recorder" (a handler that     *)
(* only notes its arguments), "throwsOnV1" (a handler that notes its       *)
(* arguments and throws for vehicle v1) or "null".  calls lists the        *)
(* handler's calls; escaped tells that an exception left the loop.         *)
(***************************************************************************)
\* this.onExpire(vehicleId, vehicle) throws
handlerThrows(handler, vehicleId) == handler = "throwsOnV1" /\ vehicleId = "v1"

\* a loop without the try/catch: the handler's exception leaves it
catchExpireRethrow(threw) == threw

\* try { this.onExpire(...) } catch (err) { this.logger?.warn(...) }: whether
\* the exception leaves the loop
catchExpire(threw) == FALSE

RECURSIVE ExpireLoop(_, _, _)
ExpireLoop(ids, st, handler) ==
  IF ids = <<>> \/ st.escaped THEN st
  ELSE
    LET vehicleId == Head(ids)
        vehicle == StoreGet(st.map, vehicleId)
        b == IF handler = "broadcastRemoval"
               THEN broadcastRemoval(st.clients, st.sock, vehicleId)
               ELSE [clients |-> st.clients, sock |-> st.sock]
        st1 == [map |-> MapDelete(st.map, vehicleId),
                clients |-> b.clients,
                sock |-> b.sock,
                calls |-> IF handler = "null" THEN st.calls
                          ELSE Append(st.calls, <<vehicleId, vehicle>>),
                escaped |-> catchExpire(handlerThrows(handler, vehicleId))]
    IN ExpireLoop(Tail(ids), st1, handler)

\* the expiry handler applied to the calls of one set (at most one)
notifyExpire(calls, cl, sk, handler) ==
  IF calls = <<>> \/ handler # "broadcastRemoval"
    THEN [clients |-> cl, sock |-> sk]
    ELSE broadcastRemoval(cl, sk, calls[1][1])

pruneExpired(m, cl, sk, handler, t) ==
  IF ttlMs <= 0
    THEN [map |-> m, clients |-> cl, sock |-> sk, calls |-> <<>>, escaped |-> FALSE]
  ELSE ExpireLoop(ExpiredIds(m, t),
                  [map |-> m, clients |-> cl, sock |-> sk, calls |-> <<>>,
                   escaped |-> FALSE],
                  handler)

(***************************************************************************)
(* message-metrics.js                                                      *)
(***************************************************************************)
RECURSIVE pruneOldTimestamps(_, _, _)
pruneOldTimestamps(ts, t, windowMs) ==
  IF Len(ts) > 0 /\ t - ts[1] > windowMs
    THEN pruneOldTimestamps(Tail(ts), t, windowMs)
    ELSE ts

\* recordTimestamp(state, now, windowMs)
recordTimestampUntrimmed(ts, t, windowMs) == Append(ts, t)
recordTimestamp(ts, t, windowMs) == pruneOldTimestamps(Append(ts, t), t, windowMs)

\* the greatest common divisor, and the quotient n / d (d > 0) in lowest terms
RECURSIVE Gcd(_, _)
Gcd(a, b) == IF b = 0 THEN a ELSE Gcd(b, a % b)
Quotient(n, d) ==
  LET g == Gcd(IF n < 0 THEN -n ELSE n, d)
  IN [num |-> n \div g, den |-> d \div g]

\* calculateRate: the timestamps kept and the rate, messages per second
calculateRateIntervals(ts, windowMs, t) ==
  LET kept == pruneOldTimestamps(ts, t, windowMs)
  IN [messageTimestamps |-> kept,
      rate |-> IF windowMs <= 0 THEN Quotient(0, 1)
               ELSE Quotient((Len(kept) - 1) * 1000, windowMs)]
calculateRate(ts, windowMs, t) ==
  LET kept == pruneOldTimestamps(ts, t, windowMs)
  IN [messageTimestamps |-> kept,
      rate |-> IF windowMs <= 0 THEN Quotient(0, 1)
               ELSE IF Len(kept) = 0 THEN Quotient(0, 1)
               ELSE Quotient(Len(kept) * 1000, windowMs)]

\* Number(rate.toFixed(3)) of a rate that is not negative: the nearest
\* multiple of 1/1000
ToFixed3(rate) == Quotient((2000 * rate.num + rate.den) \div (2 * rate.den), 1000)

(***************************************************************************)
(* mqtt-service.js                                                         *)
(***************************************************************************)
\* degrees of arc to kilometres on the sphere: R * deg * (PI / 180)
ArcKm(deg) == (EarthRadiusKm * 31416 * deg) \div 1800000

\* haversine, for two points on one meridian or both on the equator, where
\* the central angle is the difference of the coordinates that differ
haversine(lat1, lng1, lat2, lng2) ==
  IF lng1 = lng2 THEN ArcKm(Abs(lat2 - lat1)) ELSE ArcKm(Abs(lng2 - lng1))

\* speed from the size of the time difference, whatever its sign
computeSpeedUnsigned(previous, current) ==
  LET prevTime == DateParse(previous.ts)
      currTime == DateParse(current.ts)
      deltaMs == Abs(currTime - prevTime)
      distanceKm == haversine(previous.lat, previous.lng, current.lat, current.lng)
  IN IF ~IsFinite(prevTime) \/ ~IsFinite(currTime) THEN 0
     ELSE IF deltaMs <= 0 THEN 0
     ELSE (distanceKm * MsPerHour) \div deltaMs

computeSpeed(previous, current) ==
  LET prevTime == DateParse(previous.ts)
      currTime == DateParse(current.ts)
      deltaMs == currTime - prevTime
      distanceKm == haversine(previous.lat, previous.lng, current.lat, current.lng)
  IN IF ~IsFinite(prevTime) \/ ~IsFinite(currTime) THEN 0
     ELSE IF deltaMs <= 0 THEN 0
     ELSE (distanceKm * MsPerHour) \div deltaMs

(***************************************************************************)
(* telemetry-repository.js.  The database is the record                    *)
(* [vehicles, events, distanceCache]: vehicles and distanceCache are the   *)
(* sets of their rows, with vehicle_id as primary key; events is the log   *)
(* in event_id order (AUTOINCREMENT numbers the rows 1, 2, ...).  A text   *)
(* column holds an ISO string; the canonical strings written here compare  *)
(* as text the way their instants compare.  A JavaScript value that may be *)
(* undefined or null is <<>> or <<value>>.                                 *)
(***************************************************************************)
HasRow(table, id) == \E r \in table : r.vehicle_id = id
Row(table, id) == CHOOSE r \in table : r.vehicle_id = id
\* INSERT, or UPDATE of the row with the same primary key
Upsert(table, row) == {r \in table : r.vehicle_id # row.vehicle_id} \cup {row}

\* the statement of the transaction that throws, or "none"
Faults == {"none", "upsertVehicle", "insertEvent", "updateDistance"}

\* normalizeIso of a string: the string itself
normalizeIso(value) == value

computeDeltaKm(previous, currentMessage) ==
  IF previous = <<>> THEN 0
  ELSE IF \/ ~IsFinite(previous[1].lat) \/ ~IsFinite(previous[1].lng)
          \/ ~IsFinite(currentMessage.lat) \/ ~IsFinite(currentMessage.lng)
    THEN 0
  ELSE haversine(previous[1].lat, previous[1].lng, currentMessage.lat, currentMessage.lng)

\* INSERT INTO vehicles ... ON CONFLICT(vehicle_id) DO UPDATE
upsertVehicle(table, vehicleId, recordedAt, lastSeen, lat, lng, engineStatus, fuelLevel) ==
  LET first == IF HasRow(table, vehicleId)
                  /\ Row(table, vehicleId).first_seen_at.ms <= recordedAt.ms
                 THEN Row(table, vehicleId).first_seen_at
                 ELSE recordedAt
  IN Upsert(table, [vehicle_id |-> vehicleId,
                    first_seen_at |-> first,
                    last_seen_at |-> lastSeen,
                    last_latitude |-> lat,
                    last_longitude |-> lng,
                    last_engine_status |-> engineStatus,
                    last_fuel_level |-> fuelLevel])

\* INSERT INTO telemetry_events
insertEvent(log, vehicleId, recordedAt, lat, lng, speed, fuelLevel, engineStatus, deltaKm) ==
  Append(log, [event_id |-> Len(log) + 1,
               vehicle_id |-> vehicleId,
               recorded_at |-> recordedAt,
               latitude |-> lat,
               longitude |-> lng,
               speed_kmh |-> speed,
               fuel_level |-> fuelLevel,
               engine_status |-> engineStatus,
               distance_km |-> deltaKm])

\* a distance cache that keeps the last increment instead of the total
updateDistanceReplace(table, vehicleId, eventId, deltaKm) ==
  LET increment == IF IsFinite(deltaKm) /\ deltaKm > 0 THEN deltaKm ELSE 0
  IN Upsert(table, [vehicle_id |-> vehicleId,
                    last_event_id |-> eventId,
                    cumulative_km |-> increment])

updateDistance(table, vehicleId, eventId, deltaKm) ==
  LET increment == IF IsFinite(deltaKm) /\ deltaKm > 0 THEN deltaKm ELSE 0
      nextTotal == (IF HasRow(table, vehicleId)
                      THEN Row(table, vehicleId).cumulative_km ELSE 0) + increment
  IN Upsert(table, [vehicle_id |-> vehicleId,
                    last_event_id |-> eventId,
                    cumulative_km |-> nextTotal])

\* the database after each statement of recordTelemetryTx
TxStatements(db, payload) ==
  LET message == payload.message
      recordedAt == normalizeIso(message.ts)
      lastSeen == normalizeIso(payload.enriched.lastSeen)
      deltaKm == computeDeltaKm(payload.previous, message)
      db1 == [db EXCEPT !.vehicles =
                upsertVehicle(@, message.vehicleId, recordedAt, lastSeen, message.lat,
                              message.lng, message.engineStatus, message.fuelLevel)]
      db2 == [db1 EXCEPT !.events =
                insertEvent(@, message.vehicleId, recordedAt, message.lat, message.lng,
                            payload.enriched.speed, message.fuelLevel,
                            message.engineStatus, deltaKm)]
      db3 == [db2 EXCEPT !.distanceCache =
                updateDistance(@, message.vehicleId, Len(db2.events), deltaKm)]
  IN [upsertVehicle |-> db1, insertEvent |-> db2, updateDistance |-> db3]

\* a transaction whose failure keeps the statements that ran before it
recordTelemetryTxNoRollback(db, payload, fault) ==
  LET after == TxStatements(db, payload)
  IN CASE fault = "none" -> [db |-> after.updateDistance, threw |-> FALSE]
       [] fault = "upsertVehicle" -> [db |-> db, threw |-> TRUE]
       [] fault = "insertEvent" -> [db |-> after.upsertVehicle, threw |-> TRUE]
       [] fault = "updateDistance" -> [db |-> after.insertEvent, threw |-> TRUE]

\* db.transaction(...): commits when the function returns, rolls back and
\* rethrows when a statement throws
recordTelemetryTx(db, payload, fault) ==
  LET after == TxStatements(db, payload)
  IN CASE fault = "none" -> [db |-> after.updateDistance, threw |-> FALSE]
       [] OTHER -> [db |-> db, threw |-> TRUE]

recordTelemetry(db, payload, fault) == recordTelemetryTx(db, payload, fault)

(***************************************************************************)
(* Broker payloads.                                                        *)
(***************************************************************************)
RawObject(vehicleId, lat, lng, ts, fuelLevel, engineStatus) ==
  [json |-> TRUE,
   value |-> [kind |-> "object", vehicleId |-> vehicleId, lat |-> lat, lng |-> lng,
              ts |-> ts, fuelLevel |-> fuelLevel, engineStatus |-> engineStatus]]

RawValid(vehicleId, lat, ts) ==
  RawObject(JsStr(vehicleId), JsNum(lat), JsNum(0), ts, JsNum(50), JsStr("running"))

RawInvalid ==
  { [json |-> FALSE, value |-> [kind |-> "none"]],
    [json |-> TRUE, value |-> [kind |-> "null"]],
    [json |-> TRUE, value |-> [kind |-> "number"]],
    RawObject(Undefined, JsNum(0), JsNum(0), JsIso(0), JsNum(50), JsStr("running")),
    RawObject(JsStr("  "), JsNum(0), JsNum(0), JsIso(0), JsNum(50), JsStr("running")),
    RawObject(JsStr("v1"), JsNum(91), JsNum(0), JsIso(0), JsNum(50), JsStr("running")),
    RawObject(JsStr("v1"), JsStr("0"), JsNum(0), JsIso(0), JsNum(50), JsStr("running")),
    RawObject(JsStr("v1"), JsNum(0), JsNum(-181), JsIso(0), JsNum(50), JsStr("running")),
    RawObject(JsStr("v1"), JsNum(0), JsNum(0), Undefined, JsNum(50), JsStr("running")),
    RawObject(JsStr("v1"), JsNum(0), JsNum(0), JsStr("soon"), JsNum(50), JsStr("running")),
    RawObject(JsStr("v1"), JsNum(0), JsNum(0), JsIso(0), JsNum(101), JsStr("running")),
    RawObject(JsStr("v1"), JsNum(0), JsNum(0), JsIso(0), JsNum(50), JsStr("parked")),
    RawObject(JsStr("v1"), JsNum(0), JsNum(0), JsIso(0), JsNum(50), JsNull) }

\* payloads of the ingest specification: positions, instants and spellings vary
IngestMessages ==
  { RawValid("v1", lat, JsIso(ts)) : lat \in {0, 2}, ts \in {0, 1800000, 3600000} }
  \cup { RawValid(" v1", 1, JsIso(1800000)), RawValid("v2", 0, JsIso(0)),
         RawValid("v3", 0, JsIso(0)),
         RawObject(JsStr("v2 "), JsNum(1), JsNum(0), JsNum(1800000), JsNum(0), JsStr("Idle")) }
  \cup RawInvalid

\* payloads of the fan-out specification: the vehicle and the position vary
FanoutMessages ==
  { RawValid("v1", 0, JsIso(0)), RawValid("v1", 2, JsIso(1800000)),
    RawValid("v2", 0, JsIso(0)) }

(***************************************************************************)
(* The state before any call: an empty database, no call made on the       *)
(* repository, no live snapshot stream.                                    *)
(***************************************************************************)
NoOptions ==
  [now |-> 0, start |-> <<>>, end |-> <<>>, windows |-> <<>>, force |-> <<>>,
   vehicleIds |-> <<>>, limit |-> 0, pageToken |-> <<>>, windowSeconds |-> 0]

\* the last call: its name, whether it threw, whether it repeats the call
\* before it, its arguments and what it returned or wrote
NoCall ==
  [op |-> "none", threw |-> FALSE, repeat |-> FALSE, options |-> NoOptions,
   rows |-> <<>>, pages |-> <<>>, token |-> <<>>,
   request |-> <<>>, fault |-> <<>>, error |-> <<>>, queried |-> FALSE,
   arrivals |-> <<>>, windowMs |-> 0, rate |-> <<>>,
   steps |-> <<>>, eventsAtBroadcast |-> 0]

NoStream ==
  [state |-> "none", filter |-> {}, tracker |-> {}, pending |-> <<>>,
   sendAll |-> FALSE, waiting |-> FALSE, queue |-> <<>>, buffered |-> 0,
   out |-> <<>>, polledAt |-> 0, running |-> 0]

\* the gRPC calls of the model: the snapshot stream followed in detail and
\* further live streams of which only the lifecycle is followed
StreamCall == "c0"
CallIds == {"c0", "c1", "c2", "c3", "c4"}

\* one StreamVehicleSnapshots call: the handler's `closed`, the `disconnected`
\* of registerStream's closure, the poll interval, and the numbers of terminal
\* events and of counter decrements seen for it
NoGrpcCall ==
  [opened |-> FALSE, closed |-> FALSE, disconnected |-> FALSE, interval |-> "none",
   terminals |-> 0, decrements |-> 0]

\* activeStreams, state.grpcStreams and the calls
NoGrpc == [activeStreams |-> {}, grpcStreams |-> 0, calls |-> [id \in CallIds |-> NoGrpcCall]]

\* the backend process: shutdown's flag and what it has stopped, whether the
\* force-exit timer is set, the signals received, the runs of the shutdown
\* sequence, and which call of process.exit ended the process
NoProc ==
  [shuttingDown |-> FALSE, storeStopped |-> FALSE, websocketClosed |-> FALSE,
   httpClosed |-> FALSE, mqttEnding |-> FALSE, exited |-> FALSE,
   forceExitTimer |-> FALSE, signals |-> 0, sequences |-> 0, exitedBy |-> "none"]

\* the simulator process: its flags, the publish counter, the vehicles with a
\* timer set, the vehicles whose publish has no callback yet, and the number
\* of messages handed to the broker client
NoSim ==
  [simulationStarted |-> FALSE, shuttingDown |-> FALSE, totalPublished |-> 0,
   timers |-> {}, inflight |-> {}, handed |-> 0, exited |-> FALSE]

\* WebSocket objects the dashboard client creates in the model, and its
\* maxAttempts option
MaxSockets == 3
maxAttempts == 2

\* the dashboard client: socket (0 for null), reconnectTimer,
\* reconnectAttempts, every WebSocket it created with its readyState and
\* whether the client's listeners are attached, and, once destroy() was
\* called, whether a callback was delivered or a connection opened after it
NoClient ==
  [socket |-> 0, reconnectTimer |-> FALSE, reconnectAttempts |-> 0,
   socks |-> [i \in 1..MaxSockets |-> [readyState |-> "NONE", listeners |-> FALSE]],
   created |-> 0, destroyed |-> FALSE, lateCallback |-> FALSE,
   openedAfterDestroy |-> FALSE]

RepoInit ==
  /\ vehicles = {}
  /\ events = <<>>
  /\ distanceCache = {}
  /\ rollups = {}
  /\ uncaught = 0
  /\ call = NoCall
  /\ stream = NoStream
  /\ grpc = NoGrpc
  /\ proc = NoProc
  /\ sim = NoSim
  /\ client = NoClient

\* the last call made on the store's interface: its name and arguments, whether
\* the id was cached when it was made, and the calls it made to the handler
Op(op, id, t, had, calls) == [op |-> op, id |-> id, t |-> t, had |-> had, calls |-> calls]

(***************************************************************************)
(* The backend: index.js wires the store, the fan-out and the ingest       *)
(* handler; the store's expiry handler is broadcastRemoval.                *)
(***************************************************************************)
Init ==
  /\ now = 0
  /\ map = <<>>
  /\ onExpire = "broadcastRemoval"
  /\ totalMessages = 0
  /\ invalidMessages = 0
  /\ messageTimestamps = <<>>
  /\ clients = {}
  /\ sock = [s \in Sockets |-> NoSocket]
  /\ delivered = 0
  /\ produced = <<>>
  /\ lastOp = Op("init", "", 0, FALSE, <<>>)
  /\ writes = <<>>
  /\ RepoInit

\* the server clock advances
Tick ==
  /\ now < MaxClock
  /\ now' = now + 1
  /\ UNCHANGED <<map, onExpire, totalMessages, invalidMessages, messageTimestamps,
                 clients, sock, delivered, produced, lastOp, writes>>
  /\ UNCHANGED repoVars

\* a handler that returns on a validation failure without counting it
CountersUncountedReject(parsedOk, validOk, total, invalid) ==
  IF ~parsedOk THEN [totalMessages |-> total, invalidMessages |-> invalid + 1]
  ELSE IF ~validOk THEN [totalMessages |-> total, invalidMessages |-> invalid]
  ELSE [totalMessages |-> total + 1, invalidMessages |-> invalid]

\* a handler that counts a rejected message in totalMessages as well
CountersBothOnReject(parsedOk, validOk, total, invalid) ==
  IF ~parsedOk THEN [totalMessages |-> total + 1, invalidMessages |-> invalid + 1]
  ELSE IF ~validOk THEN [totalMessages |-> total + 1, invalidMessages |-> invalid + 1]
  ELSE [totalMessages |-> total + 1, invalidMessages |-> invalid]

\* the counters after the handler: its two early returns and the valid path
Counters(parsedOk, validOk, total, invalid) ==
  IF ~parsedOk THEN [totalMessages |-> total, invalidMessages |-> invalid + 1]
  ELSE IF ~validOk THEN [totalMessages |-> total, invalidMessages |-> invalid + 1]
  ELSE [totalMessages |-> total + 1, invalidMessages |-> invalid]

\* mqttClient.on('message'), without a telemetry repository
OnMessage(raw) ==
  /\ delivered' = delivered + 1
  /\ LET parsed == tryParseJson(raw)
         validation == validateTelemetry(parsed.value)
         c == Counters(parsed.ok, parsed.ok /\ validation.ok, totalMessages,
                       invalidMessages)
     IN /\ totalMessages' = c.totalMessages
        /\ invalidMessages' = c.invalidMessages
        /\ IF ~parsed.ok \/ ~validation.ok
             THEN UNCHANGED <<map, messageTimestamps, clients, sock, produced>>
             ELSE LET message == validation.value
                      previous == StoreGet(map, message.vehicleId)
                      speed == IF MapHas(map, message.vehicleId)
                                 THEN computeSpeed(previous, message) ELSE 0
                      enriched == [vehicleId |-> message.vehicleId,
                                   lat |-> message.lat,
                                   lng |-> message.lng,
                                   ts |-> message.ts,
                                   speed |-> speed,
                                   fuelLevel |-> message.fuelLevel,
                                   engineStatus |-> message.engineStatus,
                                   lastSeen |-> ToISOString(now)]
                      n == notifyExpire(StoreSetCalls(map, message.vehicleId, enriched),
                                        clients, sock, onExpire)
                      b == broadcastUpdate(n.clients, n.sock, enriched)
                  IN /\ map' = StoreSet(map, message.vehicleId, enriched)
                     /\ messageTimestamps' = recordTimestamp(messageTimestamps, now,
                                                             MessageWindowMs)
                     /\ clients' = b.clients
                     /\ sock' = b.sock
                     /\ produced' = Append(produced, enriched)
  /\ UNCHANGED <<now, onExpire, lastOp, writes>>
  /\ UNCHANGED repoVars

\* the store's expiry timer: pruneExpired() at the current time
ExpiryTimer ==
  /\ ttlMs > 0
  /\ LET r == pruneExpired(map, clients, sock, onExpire, now)
     IN /\ map' = r.map
        /\ clients' = r.clients
        /\ sock' = r.sock
  /\ UNCHANGED <<now, onExpire, totalMessages, invalidMessages, messageTimestamps,
                 delivered, produced, lastOp, writes>>
  /\ UNCHANGED repoVars

\* wss.on('connection'): a new open socket joins and is sent the snapshot
OnConnection(s) ==
  /\ sock[s].readyState = "NONE"
  /\ clients' = clients \cup {s}
  /\ sock' = [sock EXCEPT ![s] =
                sendSnapshot([readyState |-> "OPEN", bufferedAmount |-> 0, inbox |-> <<>>],
                             map)]
  /\ UNCHANGED <<now, map, onExpire, totalMessages, invalidMessages, messageTimestamps,
                 delivered, produced, lastOp, writes>>
  /\ UNCHANGED repoVars

\* the transport flushes one frame of the outbound buffer
Drain(s) ==
  /\ sock[s].readyState = "OPEN"
  /\ sock[s].bufferedAmount > 0
  /\ sock' = [sock EXCEPT ![s].bufferedAmount = @ - PayloadBytes]
  /\ UNCHANGED <<now, map, onExpire, totalMessages, invalidMessages, messageTimestamps,
                 clients, delivered, produced, lastOp, writes>>
  /\ UNCHANGED repoVars

\* the closing handshake starts: the socket leaves the OPEN state
PeerClosing(s) ==
  /\ sock[s].readyState = "OPEN"
  /\ sock' = [sock EXCEPT ![s].readyState = "CLOSING"]
  /\ UNCHANGED <<now, map, onExpire, totalMessages, invalidMessages, messageTimestamps,
                 clients, delivered, produced, lastOp, writes>>
  /\ UNCHANGED repoVars

\* socket.on('close')
OnSocketClose(s) ==
  /\ sock[s].readyState \in {"OPEN", "CLOSING"}
  /\ sock' = [sock EXCEPT ![s].readyState = "CLOSED"]
  /\ clients' = clients \ {s}
  /\ UNCHANGED <<now, map, onExpire, totalMessages, invalidMessages, messageTimestamps,
                 delivered, produced, lastOp, writes>>
  /\ UNCHANGED repoVars

Next ==
  \/ Tick
  \/ delivered < MaxFanout /\ \E raw \in FanoutMessages : OnMessage(raw)
  \/ ExpiryTimer
  \/ \E s \in Sockets : OnConnection(s)
  \/ \E s \in Sockets : Drain(s)
  \/ \E s \in Sockets : PeerClosing(s)
  \/ \E s \in Sockets : OnSocketClose(s)

Spec == Init /\ [][Next]_vars

\* the backend with more vehicles than the cache holds and one subscriber
EvictMessages == { RawValid(v, 0, JsIso(0)) : v \in {"v1", "v2", "v3", "v4"} }

NextEvict ==
  \/ Tick
  \/ delivered < MaxMessages /\ \E raw \in EvictMessages : OnMessage(raw)
  \/ ExpiryTimer
  \/ OnConnection("s1")
  \/ Drain("s1")

SpecEvict == Init /\ [][NextEvict]_vars

\* buildStats of routes/api.js: the timestamps kept and the response
buildStats(ts, total, invalid, m, cl, t) ==
  LET r == calculateRate(ts, MessageWindowMs, t)
  IN [messageTimestamps |-> r.messageTimestamps,
      response |-> [totalMessages |-> total,
                    invalidMessages |-> invalid,
                    vehiclesTracked |-> Len(m),
                    connectedClients |-> Cardinality(cl),
                    messageRatePerSecond |-> ToFixed3(r.rate),
                    windowSeconds |-> Quotient(MessageWindowMs, 1000)]]

\* GET /stats
GetStats ==
  /\ LET r == buildStats(messageTimestamps, totalMessages, invalidMessages, map, clients, now)
     IN /\ messageTimestamps' = r.messageTimestamps
        /\ lastOp' = Op("stats", "", 0, FALSE, <<>>)
  /\ UNCHANGED <<now, map, onExpire, totalMessages, invalidMessages,
                 clients, sock, delivered, produced, writes>>
  /\ UNCHANGED repoVars

\* payloads of the stats specification: two vehicles, a frame that is not
\* JSON and an observation with a latitude out of range
StatsMessages ==
  { RawValid("v1", 0, JsIso(0)), RawValid("v2", 0, JsIso(0)),
    [json |-> FALSE, value |-> [kind |-> "none"]],
    RawObject(JsStr("v1"), JsNum(91), JsNum(0), JsIso(0), JsNum(50), JsStr("running")) }

\* the backend with the stats route and one subscriber
NextStats ==
  \/ Tick
  \/ delivered < MaxMessages /\ \E raw \in StatsMessages : OnMessage(raw)
  \/ ExpiryTimer
  \/ OnConnection("s1")
  \/ OnSocketClose("s1")
  \/ GetStats

SpecStats == Init /\ [][NextStats]_vars

(***************************************************************************)
(* The backend entry point: shutdown() on SIGINT or SIGTERM.  proc holds   *)
(* shuttingDown and what shutdown has stopped; the process ends when the   *)
(* callback of mqttClient.end(false, callback) or the force-exit timer     *)
(* calls process.exit.                                                     *)
(***************************************************************************)
ProcUnchanged ==
  UNCHANGED <<now, map, onExpire, totalMessages, invalidMessages, messageTimestamps,
              delivered, produced, lastOp, writes,
              vehicles, events, distanceCache, rollups, uncaught, call, stream,
              grpc, sim, client>>

\* wss.close(): the server stops accepting connections; whether it also ends
\* the sockets of the connected subscribers depends on the version of the
\* WebSocket library
wssClose(sk, terminate) ==
  [s \in Sockets |->
     IF terminate /\ sk[s].readyState \in {"OPEN", "CLOSING"}
       THEN [sk[s] EXCEPT !.readyState = "CLOSED"] ELSE sk[s]]

\* signals the model delivers to the process
MaxSignals == 2

\* a shutdown() that does not test its flag
alreadyShuttingDownIgnored(p) == FALSE

\* if (shuttingDown) return
alreadyShuttingDown(p) == p.shuttingDown

\* shutdown() on SIGINT, SIGTERM or an uncaught exception: the expiry timer,
\* the WebSocket server, the HTTP server and the broker client, in this
\* order, and then the force-exit timer is set
Shutdown(terminate) ==
  /\ ~proc.exited
  /\ proc.signals < MaxSignals
  /\ IF alreadyShuttingDown(proc)
       THEN /\ proc' = [proc EXCEPT !.signals = @ + 1]
            /\ UNCHANGED <<clients, sock>>
       ELSE /\ proc' = [proc EXCEPT !.signals = @ + 1, !.sequences = @ + 1,
                                    !.shuttingDown = TRUE, !.storeStopped = TRUE,
                                    !.websocketClosed = TRUE, !.httpClosed = TRUE,
                                    !.mqttEnding = TRUE, !.forceExitTimer = TRUE]
            /\ sock' = wssClose(sock, terminate)
            /\ clients' = IF terminate THEN {} ELSE clients
  /\ ProcUnchanged

\* process.exit(0) in the callback of mqttClient.end; the callback may never
\* be called
ProcessExit ==
  /\ proc.mqttEnding
  /\ ~proc.exited
  /\ proc' = [proc EXCEPT !.exited = TRUE, !.exitedBy = "disconnect"]
  /\ UNCHANGED <<clients, sock>>
  /\ ProcUnchanged

\* the force-exit timer fires: process.exit(0)
ForceExit ==
  /\ proc.forceExitTimer
  /\ ~proc.exited
  /\ proc' = [proc EXCEPT !.exited = TRUE, !.exitedBy = "forceExitTimer"]
  /\ UNCHANGED <<clients, sock>>
  /\ ProcUnchanged

\* the backend until its process has ended: the 'message' listener stays
\* registered while the broker client ends, the expiry timer runs until
\* vehicleStore.stop(), connections are accepted until wss.close()
NextShutdown ==
  \/ ~proc.exited /\ Tick
  \/ ~proc.exited /\ delivered < MaxFanout /\ \E raw \in FanoutMessages : OnMessage(raw)
  \/ ~proc.storeStopped /\ ExpiryTimer
  \/ ~proc.websocketClosed /\ OnConnection("s1")
  \/ ~proc.exited /\ OnSocketClose("s1")
  \/ \E terminate \in BOOLEAN : Shutdown(terminate)
  \/ ProcessExit
  \/ ForceExit

SpecShutdown == Init /\ [][NextShutdown]_vars

\* a timer that is set fires: the force-exit timer is the only step the
\* process is bound to take
SpecShutdownLive == SpecShutdown /\ WF_vars(ForceExit)

(***************************************************************************)
(* The simulator (simulator/index.js): one timer per vehicle, a publish    *)
(* whose callback comes later, and the --max-messages limit.  sim.handed   *)
(* counts the calls of client.publish.                                     *)
(***************************************************************************)
SimVehicles == {"sv1", "sv2", "sv3"}
MaxHanded == 5
\* --max-messages
maxMessages == 2

SimUnchanged ==
  UNCHANGED <<now, map, onExpire, totalMessages, invalidMessages, messageTimestamps,
              clients, sock, delivered, produced, lastOp, writes,
              vehicles, events, distanceCache, rollups, uncaught, call, stream,
              grpc, proc, client>>

\* scheduleNextPublish(vehicle)
scheduleNextPublish(sm, vehicle) ==
  IF sm.shuttingDown \/ (maxMessages > 0 /\ sm.totalPublished >= maxMessages)
    THEN sm
    ELSE [sm EXCEPT !.timers = @ \cup {vehicle}]

\* initiateShutdown(reason): the timers are cleared and the client is ended
initiateShutdown(sm) ==
  IF sm.shuttingDown THEN sm
  ELSE [sm EXCEPT !.shuttingDown = TRUE, !.timers = {}]

RECURSIVE scheduleAll(_, _)
scheduleAll(sm, todo) ==
  IF todo = {} THEN sm
  ELSE LET vehicle == CHOOSE v \in todo : TRUE
       IN scheduleAll(scheduleNextPublish(sm, vehicle), todo \ {vehicle})

\* client.on('connect'): the first connection starts the simulation
SimConnect ==
  /\ ~sim.exited
  /\ ~sim.simulationStarted
  /\ sim' = scheduleAll([sim EXCEPT !.simulationStarted = TRUE], SimVehicles)
  /\ SimUnchanged

\* the timer of a vehicle fires: publishTelemetry hands one message to the
\* broker client
PublishTelemetry(vehicle) ==
  /\ ~sim.exited
  /\ vehicle \in sim.timers
  /\ sim.handed < MaxHanded
  /\ sim' = IF sim.shuttingDown THEN sim
            ELSE [sim EXCEPT !.timers = @ \ {vehicle},
                             !.handed = @ + 1,
                             !.inflight = @ \cup {vehicle}]
  /\ SimUnchanged

\* the callback of client.publish, with or without an error
PublishCallback(vehicle, err) ==
  /\ ~sim.exited
  /\ vehicle \in sim.inflight
  /\ LET done == [sim EXCEPT !.inflight = @ \ {vehicle}]
         counted == [done EXCEPT !.totalPublished = @ + 1]
     IN sim' = IF err THEN scheduleNextPublish(done, vehicle)
               ELSE IF done.shuttingDown THEN done
               ELSE IF maxMessages > 0 /\ counted.totalPublished >= maxMessages
                 THEN initiateShutdown(counted)
               ELSE scheduleNextPublish(counted, vehicle)
  /\ SimUnchanged

\* SIGINT or SIGTERM
SimSignal ==
  /\ ~sim.exited
  /\ ~sim.shuttingDown
  /\ sim' = initiateShutdown(sim)
  /\ SimUnchanged

\* process.exit in the callback of client.end or in the force-exit timer
SimExit ==
  /\ sim.shuttingDown
  /\ ~sim.exited
  /\ sim' = [sim EXCEPT !.exited = TRUE]
  /\ SimUnchanged

NextSim ==
  \/ SimConnect
  \/ \E vehicle \in SimVehicles : PublishTelemetry(vehicle)
  \/ \E vehicle \in SimVehicles : \E err \in BOOLEAN : PublishCallback(vehicle, err)
  \/ SimSignal
  \/ SimExit

SpecSim == Init /\ [][NextSim]_vars

(***************************************************************************)
(* The rate window on its own (message-metrics.js), driven through its     *)
(* three functions with one window length W per run.  call holds W, the    *)
(* arrivals recorded so far, the instant of the last call and the rate it  *)
(* returned.                                                               *)
(***************************************************************************)
RateWindows == {0, 1, MessageWindowMs}

InitRate ==
  /\ now = 0
  /\ map = <<>>
  /\ onExpire = "broadcastRemoval"
  /\ totalMessages = 0
  /\ invalidMessages = 0
  /\ messageTimestamps = <<>>
  /\ clients = {}
  /\ sock = [s \in Sockets |-> NoSocket]
  /\ delivered = 0
  /\ produced = <<>>
  /\ lastOp = Op("init", "", 0, FALSE, <<>>)
  /\ writes = <<>>
  /\ vehicles = {}
  /\ events = <<>>
  /\ distanceCache = {}
  /\ rollups = {}
  /\ uncaught = 0
  /\ \E w \in RateWindows : call = [NoCall EXCEPT !.windowMs = w]
  /\ stream = NoStream
  /\ grpc = NoGrpc
  /\ proc = NoProc
  /\ sim = NoSim
  /\ client = NoClient

RateUnchanged ==
  UNCHANGED <<now, map, onExpire, totalMessages, invalidMessages,
              clients, sock, delivered, produced, lastOp, writes,
              vehicles, events, distanceCache, rollups, uncaught, stream,
              grpc, proc, sim, client>>

\* the clock advances in the rate-window runs
RateTick ==
  /\ now < MaxClock
  /\ now' = now + 1
  /\ UNCHANGED <<map, onExpire, totalMessages, invalidMessages, messageTimestamps,
                 clients, sock, delivered, produced, lastOp, writes,
                 vehicles, events, distanceCache, rollups, uncaught, call, stream,
                 grpc, proc, sim, client>>

\* recordTimestamp(state, now, W)
RecordTimestamp ==
  /\ Len(call.arrivals) < MaxMessages
  /\ messageTimestamps' = recordTimestamp(messageTimestamps, now, call.windowMs)
  /\ call' = [call EXCEPT !.op = "record", !.options.now = now,
                          !.arrivals = Append(@, now), !.rate = <<>>]
  /\ RateUnchanged

\* calculateRate(state, W, now)
CalculateRate ==
  /\ LET r == calculateRate(messageTimestamps, call.windowMs, now)
     IN /\ messageTimestamps' = r.messageTimestamps
        /\ call' = [call EXCEPT !.op = "rate", !.options.now = now, !.rate = <<r.rate>>]
  /\ RateUnchanged

\* pruneOldTimestamps(state, now, W)
PruneOldTimestamps ==
  /\ messageTimestamps' = pruneOldTimestamps(messageTimestamps, now, call.windowMs)
  /\ call' = [call EXCEPT !.op = "trim", !.options.now = now, !.rate = <<>>]
  /\ RateUnchanged

NextRate ==
  \/ RateTick
  \/ RecordTimestamp
  \/ CalculateRate
  \/ PruneOldTimestamps

SpecRate == InitRate /\ [][NextRate]_vars

\* the ingest handler alone: no subscriber connects
NextIngest ==
  \/ Tick
  \/ delivered < MaxMessages /\ \E raw \in IngestMessages : OnMessage(raw)
  \/ ExpiryTimer

SpecIngest == Init /\ [][NextIngest]_vars

(***************************************************************************)
(* The vehicle store on its own, driven through its interface as in        *)
(* vehicle-store.test.js: set, delete and pruneExpired(now) with entries   *)
(* {vehicleId, lastSeen}.  writes lists the ids passed to set.             *)
(***************************************************************************)
VehicleIds == {"v1", "v2", "v3"}

StoreValues(id) ==
  { [vehicleId |-> id, lastSeen |-> ls] :
      ls \in {ToISOString(t) : t \in 0..MaxClock} \cup {NotADate} }

InitStore ==
  /\ now = 0
  /\ map = <<>>
  /\ onExpire \in {"recorder", "null"}
  /\ totalMessages = 0
  /\ invalidMessages = 0
  /\ messageTimestamps = <<>>
  /\ clients = {}
  /\ sock = [s \in Sockets |-> NoSocket]
  /\ delivered = 0
  /\ produced = <<>>
  /\ lastOp = Op("init", "", 0, FALSE, <<>>)
  /\ writes = <<>>
  /\ RepoInit

Set(id, value) ==
  /\ Len(writes) < MaxWrites
  /\ map' = StoreSet(map, id, value)
  /\ writes' = Append(writes, id)
  /\ lastOp' = Op("set", id, 0, MapHas(map, id), StoreSetCalls(map, id, value))
  /\ UNCHANGED <<now, onExpire, totalMessages, invalidMessages, messageTimestamps,
                 clients, sock, delivered, produced>>
  /\ UNCHANGED repoVars

Delete(id) ==
  /\ map' = StoreDelete(map, id)
  /\ lastOp' = Op("delete", id, 0, MapHas(map, id), <<>>)
  /\ UNCHANGED <<now, onExpire, totalMessages, invalidMessages, messageTimestamps,
                 clients, sock, delivered, produced, writes>>
  /\ UNCHANGED repoVars

Prune(t) ==
  /\ LET r == pruneExpired(map, clients, sock, onExpire, t)
     IN /\ map' = r.map
        /\ clients' = r.clients
        /\ sock' = r.sock
        /\ lastOp' = Op("pruneExpired", "", t, FALSE, r.calls)
        /\ uncaught' = IF r.escaped THEN uncaught + 1 ELSE uncaught
  /\ UNCHANGED <<now, onExpire, totalMessages, invalidMessages, messageTimestamps,
                 delivered, produced, writes>>
  /\ UNCHANGED <<vehicles, events, distanceCache, rollups, call, stream, grpc, proc, sim, client>>

NextStore ==
  \/ \E id \in VehicleIds : \E value \in StoreValues(id) : Set(id, value)
  \/ \E id \in VehicleIds : Delete(id)
  \/ \E t \in 0..(MaxClock + VehicleTtlMs) : Prune(t)

SpecStore == InitStore /\ [][NextStore]_vars

\* the store with an expiry handler that throws for one vehicle
InitExpire ==
  /\ now = 0
  /\ map = <<>>
  /\ onExpire = "throwsOnV1"
  /\ totalMessages = 0
  /\ invalidMessages = 0
  /\ messageTimestamps = <<>>
  /\ clients = {}
  /\ sock = [s \in Sockets |-> NoSocket]
  /\ delivered = 0
  /\ produced = <<>>
  /\ lastOp = Op("init", "", 0, FALSE, <<>>)
  /\ writes = <<>>
  /\ RepoInit

NextExpire ==
  \/ \E id \in VehicleIds : \E value \in StoreValues(id) : Set(id, value)
  \/ \E t \in 0..(MaxClock + VehicleTtlMs) : Prune(t)

SpecExpire == InitExpire /\ [][NextExpire]_vars

\* set only: neither delete nor expiry
NextSet == \E id \in VehicleIds : \E value \in StoreValues(id) : Set(id, value)

SpecSet == InitStore /\ [][NextSet]_vars

(***************************************************************************)
(* The ingest handler with a telemetry repository (mqtt-service.js): after *)
(* the broadcast it calls recordTelemetry inside try/catch.                *)
(***************************************************************************)
\* a handler that lets the exception of recordTelemetry out
tryRecordTelemetryUncaught(db, payload, fault) ==
  LET r == recordTelemetry(db, payload, fault)
  IN [db |-> r.db, threw |-> r.threw, escaped |-> r.threw]

\* try { recordTelemetry(...) } catch (err) { logger.error(...) }
tryRecordTelemetry(db, payload, fault) ==
  LET r == recordTelemetry(db, payload, fault)
  IN [db |-> r.db, threw |-> r.threw, escaped |-> FALSE]

\* the statements of the handler's valid path, in the order of the code
IngestSteps ==
  <<"vehicleStore.set", "totalMessages", "recordTimestamp", "broadcastUpdate",
    "recordTelemetry">>

\* payloads of the persisting handler
PersistMessages ==
  { RawValid("v1", 0, JsIso(0)), RawValid("v1", 2, JsIso(1800000)),
    RawValid("v2", 0, JsIso(0)),
    [json |-> FALSE, value |-> [kind |-> "none"]],
    RawObject(JsStr("v1"), JsNum(91), JsNum(0), JsIso(0), JsNum(50), JsStr("running")) }

\* mqttClient.on('message') with a telemetry repository; an exception that
\* leaves the handler ends the process
OnMessageRecorded(raw, fault) ==
  /\ uncaught = 0
  /\ delivered' = delivered + 1
  /\ LET parsed == tryParseJson(raw)
         validation == validateTelemetry(parsed.value)
         c == Counters(parsed.ok, parsed.ok /\ validation.ok, totalMessages,
                       invalidMessages)
     IN /\ totalMessages' = c.totalMessages
        /\ invalidMessages' = c.invalidMessages
        /\ IF ~parsed.ok \/ ~validation.ok
             THEN /\ UNCHANGED <<map, messageTimestamps, clients, sock, produced,
                                 vehicles, events, distanceCache, uncaught>>
                  /\ call' = [NoCall EXCEPT !.op = "rejected"]
             ELSE LET message == validation.value
                      previous == StoreGet(map, message.vehicleId)
                      speed == IF MapHas(map, message.vehicleId)
                                 THEN computeSpeed(previous, message) ELSE 0
                      enriched == [vehicleId |-> message.vehicleId,
                                   lat |-> message.lat,
                                   lng |-> message.lng,
                                   ts |-> message.ts,
                                   speed |-> speed,
                                   fuelLevel |-> message.fuelLevel,
                                   engineStatus |-> message.engineStatus,
                                   lastSeen |-> ToISOString(now)]
                      n == notifyExpire(StoreSetCalls(map, message.vehicleId, enriched),
                                        clients, sock, onExpire)
                      b == broadcastUpdate(n.clients, n.sock, enriched)
                      r == tryRecordTelemetry(
                             [vehicles |-> vehicles, events |-> events,
                              distanceCache |-> distanceCache],
                             [message |-> message,
                              previous |-> IF MapHas(map, message.vehicleId)
                                             THEN <<previous>> ELSE <<>>,
                              enriched |-> enriched],
                             fault)
                  IN /\ map' = StoreSet(map, message.vehicleId, enriched)
                     /\ messageTimestamps' = recordTimestamp(messageTimestamps, now,
                                                             MessageWindowMs)
                     /\ clients' = b.clients
                     /\ sock' = b.sock
                     /\ produced' = Append(produced, enriched)
                     /\ vehicles' = r.db.vehicles
                     /\ events' = r.db.events
                     /\ distanceCache' = r.db.distanceCache
                     /\ uncaught' = IF r.escaped THEN uncaught + 1 ELSE uncaught
                     /\ call' = [NoCall EXCEPT !.op = "recorded", !.threw = r.threw,
                                                !.steps = IngestSteps,
                                                !.eventsAtBroadcast = Len(events)]
  /\ UNCHANGED <<now, onExpire, lastOp, writes, rollups, stream, grpc, proc, sim, client>>

\* the backend with a repository and one subscriber; broadcastUpdate runs on
\* the database as it is before recordTelemetry
NextPersist ==
  \/ Tick
  \/ delivered < MaxMessages
       /\ \E raw \in PersistMessages : \E fault \in Faults : OnMessageRecorded(raw, fault)
  \/ ExpiryTimer
  \/ OnConnection("s1")
  \/ Drain("s1")

SpecPersist == Init /\ [][NextPersist]_vars

(***************************************************************************)
(* Rollups, history and aggregates (rollup-worker.js).  The rollup         *)
(* table is the set of its rows, keyed by (bucket_start, bucket_end,       *)
(* vehicle_id).  A text produced by SQLite's datetime() is the record      *)
(* [kind |-> "sql", s |-> epoch second]; AVG and the quotients taken from  *)
(* it are exact fractions [num, den] in lowest terms.                      *)
(***************************************************************************)
\* the materialised windows in seconds, ascending: an hour and an hour and a half
rollupWindows == <<3600, 5400>>
baseRollupWindow == rollupWindows[1]
rollupCatchUpWindows == 1
HistoryMaxLimit == 5000
HistoryDefaultLimit == 100

Min(a, b) == IF a <= b THEN a ELSE b
Max(a, b) == IF a >= b THEN a ELSE b
MinOf(S) == CHOOSE x \in S : \A y \in S : x <= y
MaxOf(S) == CHOOSE x \in S : \A y \in S : x >= y

RECURSIVE SumFn(_)
SumFn(f) ==
  IF DOMAIN f = {} THEN 0
  ELSE LET x == CHOOSE y \in DOMAIN f : TRUE
       IN f[x] + SumFn([y \in DOMAIN f \ {x} |-> f[y]])

RECURSIVE GCD(_, _)
GCD(a, b) == IF b = 0 THEN a ELSE GCD(b, a % b)

\* the quotient n / d, d > 0
Ratio(n, d) ==
  LET g == GCD(Abs(n), d)
  IN [num |-> n \div g, den |-> d \div g]

\* ascending sequence of a set of integers
RECURSIVE SortInts(_)
SortInts(S) == IF S = {} THEN <<>> ELSE <<MinOf(S)>> \o SortInts(S \ {MinOf(S)})

\* the text order of the vehicle ids
IdRank(id) ==
  CASE id = "v1" -> 1
    [] id = "v2" -> 2
    [] id = "v3" -> 3
    [] OTHER -> 4

SqlDatetime(s) == [kind |-> "sql", s |-> s]

\* strftime('%s', text): the epoch second of an ISO string or datetime() text
StrftimeS(text) == IF text.kind = "sql" THEN text.s ELSE text.ms \div 1000

\* datetime(text): the instant to the second
Datetime(text) == SqlDatetime(StrftimeS(text))

\* the / of SQLite on integers truncates toward zero
SqlDiv(a, b) == IF a >= 0 THEN a \div b ELSE 0 - ((0 - a) \div b)

\* String(eventId) and Number(pageToken)
StringOf(n) == [kind |-> "digits", n |-> n]
NumberOf(text) == text.n

toEpochSeconds(value) == IF value = <<>> THEN NaN ELSE value[1].ms \div 1000
toIsoString(epochSeconds) == ToISOString(epochSeconds * 1000)
alignToWindow(epochSeconds, windowSeconds) == (epochSeconds \div windowSeconds) * windowSeconds

\* parseSqliteDate(text).getTime(): the datetime() text read as UTC
parseSqliteDate(text) == text.s * 1000

\* parseSqliteDate(...).toISOString()
sqliteDateToIso(text) == ToISOString(text.s * 1000)

normalizePositiveNumber(value, fallback) == IF value > 0 THEN value ELSE fallback

clampLimit(value, max) == IF value <= 0 THEN HistoryDefaultLimit ELSE Min(value, max)

\* ORDER BY bucket_start ASC, vehicle_id ASC
RowBefore(r, o) ==
  \/ r.bucket_start.s < o.bucket_start.s
  \/ r.bucket_start.s = o.bucket_start.s /\ IdRank(r.vehicle_id) <= IdRank(o.vehicle_id)

RECURSIVE OrderRows(_)
OrderRows(S) ==
  IF S = {} THEN <<>>
  ELSE LET first == CHOOSE r \in S : \A o \in S : RowBefore(r, o)
       IN <<first>> \o OrderRows(S \ {first})

\* ORDER BY recorded_at ASC, event_id ASC
EventBefore(e, o) ==
  \/ e.recorded_at.ms < o.recorded_at.ms
  \/ e.recorded_at.ms = o.recorded_at.ms /\ e.event_id <= o.event_id

RECURSIVE OrderEvents(_)
OrderEvents(S) ==
  IF S = {} THEN <<>>
  ELSE LET first == CHOOSE e \in S : \A o \in S : EventBefore(e, o)
       IN <<first>> \o OrderEvents(S \ {first})

\* the statement of buildRollupSourceSql(windowSeconds) run with (start, end)
buildRollupSourceSql(log, windowSeconds, startIso, endIso) ==
  LET inRange == {i \in 1..Len(log) : /\ log[i].recorded_at.ms >= startIso.ms
                                      /\ log[i].recorded_at.ms < endIso.ms}
      bucketOf(i) == SqlDiv(StrftimeS(log[i].recorded_at), windowSeconds) * windowSeconds
      groups == {<<log[i].vehicle_id, bucketOf(i)>> : i \in inRange}
      rowOf(g) ==
        LET members == {i \in inRange : log[i].vehicle_id = g[1] /\ bucketOf(i) = g[2]}
        IN [bucket_start |-> SqlDatetime(g[2]),
            bucket_end |-> SqlDatetime(g[2] + windowSeconds),
            vehicle_id |-> g[1],
            avg_speed_kmh |-> Ratio(SumFn([i \in members |-> log[i].speed_kmh]),
                                    Cardinality(members)),
            max_speed_kmh |-> MaxOf({log[i].speed_kmh : i \in members}),
            min_fuel_level |-> MinOf({log[i].fuel_level : i \in members}),
            total_distance_km |-> SumFn([i \in members |-> log[i].distance_km]),
            sample_count |-> Cardinality(members)]
  IN OrderRows({rowOf(g) : g \in groups})

SameBucket(r, o) ==
  /\ r.bucket_start = o.bucket_start
  /\ r.bucket_end = o.bucket_end
  /\ r.vehicle_id = o.vehicle_id

\* an insert that keeps the row already stored for the bucket
upsertRollupKeepStored(table, row) ==
  IF \E r \in table : SameBucket(r, row) THEN table ELSE table \cup {row}

\* an upsert that adds the new sample count to the stored one
upsertRollupAccumulate(table, row) ==
  LET old == {r \in table : SameBucket(r, row)}
      merged == IF old = {} THEN row
                ELSE [row EXCEPT !.sample_count =
                        @ + (CHOOSE r \in old : TRUE).sample_count]
  IN (table \ old) \cup {merged}

\* INSERT INTO telemetry_rollups ... ON CONFLICT(bucket_start, bucket_end,
\* vehicle_id) DO UPDATE SET every metric = excluded
upsertRollup(table, row) ==
  LET old == {r \in table : SameBucket(r, row)}
  IN (table \ old) \cup {row}

\* applyRollups: the upsert for one row after the other, in one transaction
RECURSIVE applyRollups(_, _)
applyRollups(table, rows) ==
  IF rows = <<>> THEN table
  ELSE applyRollups(upsertRollup(table, Head(rows)), Tail(rows))

getEarliestEventEpoch(log) ==
  IF log = <<>> THEN NaN
  ELSE MinOf({log[i].recorded_at.ms : i \in 1..Len(log)}) \div 1000

\* Date.parse of MAX(bucket_end), a server whose zone is UTC
getLastRollupEnd(table, windowSeconds) ==
  LET ends == {r.bucket_end : r \in {o \in table :
                 StrftimeS(o.bucket_end) - StrftimeS(o.bucket_start) = windowSeconds}}
  IN IF ends = {} THEN NaN
     ELSE (CHOOSE e \in ends : \A o \in ends : o.s <= e.s).s

\* the table afterwards and the rows written
computeWindowRollups(log, table, windowSeconds, nowEpoch, startOverride, endOverride, force) ==
  LET earliestEpoch == getEarliestEventEpoch(log)
      effectiveEndEpoch == IF IsFinite(endOverride)
                             THEN alignToWindow(endOverride, windowSeconds)
                             ELSE alignToWindow(nowEpoch, windowSeconds)
      start0 == IF IsFinite(startOverride)
                  THEN alignToWindow(startOverride, windowSeconds)
                  ELSE alignToWindow(earliestEpoch, windowSeconds)
      lastProcessedEpoch == getLastRollupEnd(table, windowSeconds)
      catchUpSeconds == windowSeconds * Max(1, rollupCatchUpWindows)
      candidate == alignToWindow(lastProcessedEpoch - catchUpSeconds, windowSeconds)
      start1 == IF ~force /\ IsFinite(lastProcessedEpoch) /\ ~IsFinite(startOverride)
                  THEN Min(candidate, start0) ELSE start0
      floorEarliest == alignToWindow(earliestEpoch, windowSeconds)
      effectiveStartEpoch == IF ~IsFinite(startOverride)
                               THEN Max(start1, floorEarliest) ELSE start1
      rows == buildRollupSourceSql(log, windowSeconds, toIsoString(effectiveStartEpoch),
                                   toIsoString(effectiveEndEpoch))
      nothing == [table |-> table, rows |-> <<>>]
  IN IF ~IsFinite(earliestEpoch) THEN nothing
     ELSE IF effectiveEndEpoch <= earliestEpoch THEN nothing
     ELSE IF effectiveStartEpoch >= effectiveEndEpoch THEN nothing
     ELSE IF rows = <<>> THEN nothing
     ELSE [table |-> applyRollups(table, rows), rows |-> rows]

resolveRollupWindows(requested) ==
  IF requested = <<>> THEN rollupWindows
  ELSE SortInts({rollupWindows[i] : i \in 1..Len(rollupWindows)}
                  \cup {requested[i] : i \in 1..Len(requested)})

\* the loop of computePendingRollups over the windows
RECURSIVE WindowLoop(_, _, _, _, _)
WindowLoop(windows, log, table, written, options) ==
  IF windows = <<>> THEN [table |-> table, rows |-> written]
  ELSE LET result == computeWindowRollups(log, table, Head(windows),
                                          options.now \div 1000,
                                          toEpochSeconds(options.start),
                                          toEpochSeconds(options.end),
                                          options.force)
       IN WindowLoop(Tail(windows), log, result.table, written \o result.rows, options)

computePendingRollups(log, table, options) ==
  WindowLoop(resolveRollupWindows(options.windows), log, table, <<>>, options)

\* force: options.force ?? true
runRollupJob(log, table, options) ==
  computePendingRollups(log, table,
    [options EXCEPT !.force = IF options.force = <<>> THEN TRUE ELSE options.force[1]])

\* one page of queryTelemetryHistory: the events and the next page token
queryTelemetryHistory(log, args) ==
  LET wanted == {args.vehicleIds[i] : i \in 1..Len(args.vehicleIds)}
      matches == {i \in 1..Len(log) :
                    /\ args.vehicleIds # <<>> => log[i].vehicle_id \in wanted
                    /\ args.start # <<>> => log[i].recorded_at.ms >= args.start[1].ms
                    /\ args.end # <<>> => log[i].recorded_at.ms <= args.end[1].ms
                    /\ args.pageToken # <<>> =>
                         log[i].event_id > NumberOf(args.pageToken[1])}
      ordered == OrderEvents({log[i] : i \in matches})
      effectiveLimit == clampLimit(args.limit, HistoryMaxLimit)
      rows == SubSeq(ordered, 1, Min(Len(ordered), effectiveLimit))
  IN [events |-> [k \in 1..Len(rows) |->
                    [eventId |-> rows[k].event_id,
                     vehicleId |-> rows[k].vehicle_id,
                     recordedAt |-> rows[k].recorded_at,
                     latitude |-> rows[k].latitude,
                     longitude |-> rows[k].longitude,
                     speedKmh |-> rows[k].speed_kmh,
                     fuelLevel |-> rows[k].fuel_level,
                     engineStatus |-> rows[k].engine_status,
                     distanceKm |-> rows[k].distance_km]],
      nextPageToken |-> IF Len(rows) = effectiveLimit
                          THEN <<StringOf(rows[Len(rows)].event_id)>> ELSE <<>>]

\* buildMetrics with every aggregate selected
buildMetrics(bucket) ==
  [AVG_SPEED_KMH |-> IF bucket.sampleCount > 0
                       THEN Ratio(bucket.sumSpeed.num,
                                  bucket.sumSpeed.den * bucket.sampleCount)
                       ELSE Ratio(0, 1),
   MAX_SPEED_KMH |-> bucket.maxSpeed,
   MIN_FUEL_LEVEL |-> bucket.minFuel,
   TOTAL_DISTANCE_KM |-> bucket.totalDistance]

\* avg_speed_kmh * sample_count
SpeedSum(row) == Ratio(row.avg_speed_kmh.num * row.sample_count, row.avg_speed_kmh.den)

RatPlus(a, b) == Ratio(a.num * b.den + b.num * a.den, a.den * b.den)

\* the bucketMap loop: rows of the source window folded into target buckets
RECURSIVE FoldBuckets(_, _, _)
FoldBuckets(rows, buckets, targetWindowMs) ==
  IF rows = <<>> THEN buckets
  ELSE LET row == Head(rows)
           bucketStartMs == parseSqliteDate(row.bucket_start)
           key == (bucketStartMs \div targetWindowMs) * targetWindowMs
           fresh == [key |-> key,
                     bucketStart |-> ToISOString(key),
                     bucketEnd |-> ToISOString(key + targetWindowMs),
                     sampleCount |-> 0,
                     sumSpeed |-> Ratio(0, 1),
                     maxSpeed |-> row.max_speed_kmh,
                     minFuel |-> row.min_fuel_level,
                     totalDistance |-> 0]
           had == {b \in buckets : b.key = key}
           bucket == IF had = {} THEN fresh ELSE CHOOSE b \in had : TRUE
           updated == [bucket EXCEPT
                         !.sampleCount = @ + row.sample_count,
                         !.sumSpeed = RatPlus(@, SpeedSum(row)),
                         !.totalDistance = @ + row.total_distance_km,
                         !.maxSpeed = Max(@, row.max_speed_kmh),
                         !.minFuel = Min(@, row.min_fuel_level)]
       IN FoldBuckets(Tail(rows), (buckets \ had) \cup {updated}, targetWindowMs)

\* .sort((a, b) => Date.parse(a.bucketStart) - Date.parse(b.bucketStart))
RECURSIVE OrderBuckets(_)
OrderBuckets(S) ==
  IF S = {} THEN <<>>
  ELSE LET first == CHOOSE b \in S : \A o \in S : b.key <= o.key
       IN <<first>> \o OrderBuckets(S \ {first})

queryHistoricalAggregates(table, args) ==
  LET effectiveWindowSeconds == normalizePositiveNumber(args.windowSeconds, baseRollupWindow)
      resolvedWindowSeconds == Max(effectiveWindowSeconds, baseRollupWindow)
      sourceWindowSeconds ==
        IF \E i \in 1..Len(rollupWindows) : rollupWindows[i] = resolvedWindowSeconds
          THEN resolvedWindowSeconds ELSE baseRollupWindow
      wanted == {args.vehicleIds[i] : i \in 1..Len(args.vehicleIds)}
      rows == OrderRows({r \in table :
                /\ StrftimeS(r.bucket_end) - StrftimeS(r.bucket_start) = sourceWindowSeconds
                /\ args.vehicleIds # <<>> => r.vehicle_id \in wanted
                /\ args.start # <<>> => r.bucket_end.s > Datetime(args.start[1]).s
                /\ args.end # <<>> => r.bucket_start.s < Datetime(args.end[1]).s})
      native == [k \in 1..Len(rows) |->
                   [bucketStart |-> sqliteDateToIso(rows[k].bucket_start),
                    bucketEnd |-> sqliteDateToIso(rows[k].bucket_end),
                    sampleCount |-> rows[k].sample_count,
                    metrics |-> buildMetrics([sampleCount |-> rows[k].sample_count,
                                              sumSpeed |-> SpeedSum(rows[k]),
                                              maxSpeed |-> rows[k].max_speed_kmh,
                                              minFuel |-> rows[k].min_fuel_level,
                                              totalDistance |-> rows[k].total_distance_km])]]
      folded == OrderBuckets(FoldBuckets(rows, {}, resolvedWindowSeconds * 1000))
  IN IF rows = <<>> THEN <<>>
     ELSE IF resolvedWindowSeconds = sourceWindowSeconds THEN native
     ELSE [k \in 1..Len(folded) |->
             [bucketStart |-> folded[k].bucketStart,
              bucketEnd |-> folded[k].bucketEnd,
              sampleCount |-> folded[k].sampleCount,
              metrics |-> buildMetrics(folded[k])]]

(***************************************************************************)
(* The repository behind the ingest handler: messages are persisted by the *)
(* handler, and the rollup job, the history query and the aggregate query  *)
(* are called on the database it filled.                                   *)
(***************************************************************************)
MaxEvents == 2

RawAt(vehicleId, lat, ts, fuelLevel) ==
  RawObject(JsStr(vehicleId), JsNum(lat), JsNum(0), JsIso(ts), JsNum(fuelLevel),
            JsStr("running"))

\* payloads of the rollup specification: one instant before 1970, two
\* instants of one vehicle in the same hour and in different hours and a half,
\* a second vehicle; delivered in any order
RollupMessages ==
  { RawAt("v1", 0, -1000, 50), RawAt("v1", 2, 15000000, 30),
    RawAt("v1", 0, 16200000, 50), RawAt("v2", 0, 15000000, 40) }

RollupOptions ==
  { [NoOptions EXCEPT !.now = t, !.start = o[1], !.windows = o[2], !.force = o[3]] :
      t \in {16200000, 21600000},
      o \in { <<<<>>, <<>>, <<>>>>,
              <<<<ToISOString(14400000)>>, <<>>, <<FALSE>>>>,
              <<<<>>, <<7200>>, <<FALSE>>>> } }
  \cup { [NoOptions EXCEPT !.now = 1800000],
         [NoOptions EXCEPT !.now = 16200000, !.end = <<ToISOString(21600000)>>] }

HistoryArgs ==
  { [NoOptions EXCEPT !.vehicleIds = o[1], !.end = o[2], !.limit = k] :
      o \in { <<<<>>, <<>>>>, <<<<"v1">>, <<ToISOString(15000000)>>>> },
      k \in {1, 2} }

AggregateArgs ==
  { [NoOptions EXCEPT !.vehicleIds = o[1], !.start = o[2], !.windowSeconds = w] :
      o \in { <<<<>>, <<>>>>, <<<<"v1">>, <<ToISOString(14400000)>>>> },
      w \in {0, 5400, 7200, 16200} }

RepoUnchanged ==
  UNCHANGED <<now, map, onExpire, totalMessages, invalidMessages, messageTimestamps,
              clients, sock, delivered, produced, lastOp, writes,
              vehicles, events, distanceCache, uncaught, stream, grpc, proc, sim, client>>

\* telemetryRepository.runRollupJob(options)
RunRollupJob(options) ==
  /\ uncaught = 0
  /\ LET r == runRollupJob(events, rollups, options)
     IN /\ rollups' = r.table
        /\ call' = [NoCall EXCEPT !.op = "rollup",
                                  !.options = options,
                                  !.rows = r.rows,
                                  !.repeat = (call.op = "rollup" /\ call.options = options)]
  /\ RepoUnchanged

\* telemetryRepository.queryTelemetryHistory(args), the first page
QueryTelemetryHistory(args) ==
  /\ uncaught = 0
  /\ LET page == queryTelemetryHistory(events, args)
     IN call' = [NoCall EXCEPT !.op = "history",
                               !.options = args,
                               !.pages = page.events,
                               !.token = page.nextPageToken]
  /\ UNCHANGED rollups
  /\ RepoUnchanged

\* the caller resumes with the token of the page before
QueryNextPage ==
  /\ uncaught = 0
  /\ call.op = "history"
  /\ call.token # <<>>
  /\ LET page == queryTelemetryHistory(events,
                                       [call.options EXCEPT !.pageToken = call.token])
     IN call' = [call EXCEPT !.pages = @ \o page.events,
                             !.token = page.nextPageToken,
                             !.repeat = TRUE]
  /\ UNCHANGED rollups
  /\ RepoUnchanged

\* telemetryRepository.queryHistoricalAggregates(args)
QueryHistoricalAggregates(args) ==
  /\ uncaught = 0
  /\ call' = [NoCall EXCEPT !.op = "aggregates",
                            !.options = args,
                            !.rows = queryHistoricalAggregates(rollups, args)]
  /\ UNCHANGED rollups
  /\ RepoUnchanged

NextRollup ==
  \/ Len(events) < MaxEvents
       /\ \E raw \in RollupMessages : OnMessageRecorded(raw, "none")
  \/ \E options \in RollupOptions : RunRollupJob(options)
  \/ \E args \in HistoryArgs : QueryTelemetryHistory(args)
  \/ QueryNextPage
  \/ \E args \in AggregateArgs : QueryHistoricalAggregates(args)

SpecRollup == Init /\ [][NextRollup]_vars

(***************************************************************************)
(* grpc-service.js, StreamVehicleSnapshots.  The stream is the record      *)
(* [state, filter, tracker, pending, sendAll, waiting, queue, buffered,    *)
(* out, polledAt]: tracker is the Map of the keys last emitted, as the set *)
(* of its [vehicleId, key] pairs; out lists the messages handed to         *)
(* call.write; buffered counts those the peer has not taken yet; a flush   *)
(* that awaits 'drain' keeps the rest of its vehicle list in pending and   *)
(* the flushes chained behind it wait in queue.                            *)
(***************************************************************************)
pollIntervalMs == 1
StreamHighWater == 2
MaxTerminals == 2

NoTimestamp == [seconds |-> NullNumber, nanos |-> 0]

\* null, or new Date(value).toISOString()
toIsoSafely(value) ==
  IF IsFinite(DateParse(value)) THEN <<ToISOString(DateParse(value))>> ELSE <<>>

toTimestamp(value) ==
  IF value = <<>> THEN NoTimestamp
  ELSE [seconds |-> value[1].ms \div 1000, nanos |-> (value[1].ms % 1000) * 1000000]

buildFilterSet(vehicleIds) == {vehicleIds[i] : i \in 1..Len(vehicleIds)}

\* the cached vehicles that pass the filter, in the order of the Map
collectVehicles(m, filterSet) ==
  LET kept == SelectSeq(m, LAMBDA e : filterSet # {} => e.key \in filterSet)
  IN [i \in 1..Len(kept) |-> kept[i].value]

mapVehicleToSnapshot(vehicle) ==
  LET recordedIso == toIsoSafely(vehicle.ts)
      lastSeenIso == IF toIsoSafely(vehicle.lastSeen) # <<>>
                       THEN toIsoSafely(vehicle.lastSeen) ELSE recordedIso
  IN [vehicleId |-> vehicle.vehicleId,
      lastSeenKey |-> IF lastSeenIso # <<>> THEN lastSeenIso[1] ELSE NotADate,
      message |-> [vehicleId |-> vehicle.vehicleId,
                   lastSeen |-> toTimestamp(lastSeenIso),
                   telemetry |-> [vehicleId |-> vehicle.vehicleId,
                                  latitude |-> vehicle.lat,
                                  longitude |-> vehicle.lng,
                                  speedKmh |-> vehicle.speed,
                                  fuelLevel |-> vehicle.fuelLevel,
                                  engineStatus |-> vehicle.engineStatus,
                                  recordedAt |-> toTimestamp(recordedIso)]]]

TrackerHas(tracker, id, key) == [vehicleId |-> id, key |-> key] \in tracker
TrackerSet(tracker, id, key) ==
  {t \in tracker : t.vehicleId # id} \cup {[vehicleId |-> id, key |-> key]}

\* a call.write that reports drained whatever the buffer holds
callWriteDrained(st) == TRUE

\* what call.write returns: false once the buffer has reached the high-water
\* mark
callWrite(st) == st.buffered < StreamHighWater

\* `closed`, as the flush reads it before each vehicle and writeToStream
\* before each call.write: a flush that never looks at it
isClosedIgnored(st) == FALSE
isClosed(st) == st.state = "closed"

\* the loop of runFlush over the vehicles collected when it started; it stops
\* where call.write returns false, to go on at 'drain'
RECURSIVE runFlush(_, _, _)
runFlush(st, list, sendAll) ==
  IF list = <<>> \/ isClosed(st)
    THEN [st EXCEPT !.pending = <<>>, !.waiting = FALSE, !.running = @ - 1]
  ELSE LET payload == mapVehicleToSnapshot(Head(list))
           written == [st EXCEPT
                         !.tracker = TrackerSet(@, payload.vehicleId, payload.lastSeenKey),
                         !.out = Append(@, payload.message),
                         !.buffered = @ + 1]
       IN IF ~sendAll /\ TrackerHas(st.tracker, payload.vehicleId, payload.lastSeenKey)
            THEN runFlush(st, Tail(list), sendAll)
          ELSE IF ~callWrite(written)
            THEN [written EXCEPT !.pending = Tail(list), !.waiting = TRUE,
                                 !.sendAll = sendAll]
          ELSE runFlush(written, Tail(list), sendAll)

\* flushChain: a flush starts when the one before it has ended; running is
\* the number of flushes that have started and not ended
RECURSIVE runChain(_, _)
runChain(st, m) ==
  IF st.waiting \/ st.queue = <<>> THEN st
  ELSE runChain(runFlush([st EXCEPT !.queue = Tail(@), !.running = @ + 1],
                         collectVehicles(m, st.filter), Head(st.queue)), m)

\* an enqueueFlush that calls runFlush at once instead of chaining it
enqueueFlushUnchained(st, m, sendAll) ==
  runFlush([st EXCEPT !.running = @ + 1], collectVehicles(m, st.filter), sendAll)

\* flushChain = flushChain.then(() => runFlush({ sendAll }))
enqueueFlush(st, m, sendAll) == runChain([st EXCEPT !.queue = Append(@, sendAll)], m)

StreamUnchanged ==
  UNCHANGED <<now, map, onExpire, totalMessages, invalidMessages, messageTimestamps,
              clients, sock, delivered, produced, lastOp, writes,
              vehicles, events, distanceCache, rollups, uncaught, call, proc, sim, client>>

\* updateGrpcStreamCount(state, delta); state.grpcStreams is always a finite
\* number here, so the Number.isFinite fallback to 0 is never taken
updateGrpcStreamCount(g, delta) == [g EXCEPT !.grpcStreams = Max(0, @ + delta)]

\* registerStream(state, activeStreams, call)
registerStream(g, id) ==
  updateGrpcStreamCount([g EXCEPT !.activeStreams = @ \cup {id},
                                  !.calls[id].opened = TRUE], 1)

\* the closure returned by registerStream
disconnect(g, id) ==
  IF g.calls[id].disconnected
    THEN g
    ELSE LET marked == [g EXCEPT !.calls[id].disconnected = TRUE]
         IN IF id \in marked.activeStreams
              THEN updateGrpcStreamCount(
                     [marked EXCEPT !.activeStreams = @ \ {id},
                                    !.calls[id].decrements = @ + 1], -1)
              ELSE marked

\* cleanup of the StreamVehicleSnapshots handler
cleanupUnguarded(g, id) ==
  updateGrpcStreamCount([g EXCEPT !.calls[id].closed = TRUE,
                                  !.calls[id].interval = "cleared",
                                  !.calls[id].disconnected = TRUE,
                                  !.activeStreams = @ \ {id},
                                  !.calls[id].decrements = @ + 1], -1)
cleanup(g, id) ==
  IF g.calls[id].closed
    THEN g
    ELSE disconnect([g EXCEPT !.calls[id].closed = TRUE,
                              !.calls[id].interval = "cleared"], id)

\* the handler up to call.on(...): the stream is registered and the poll
\* interval is set
openStream(g, id) == [registerStream(g, id) EXCEPT !.calls[id].interval = "set"]

\* a terminal event of the call ('cancelled', 'error', 'close', 'finish'), each
\* of which runs cleanup
terminalEvent(g, id) == [cleanup(g, id) EXCEPT !.calls[id].terminals = @ + 1]

\* a client opens the stream: enqueueFlush(true) and the interval is set
StreamVehicleSnapshots(vehicleIds) ==
  /\ stream.state = "none"
  /\ grpc' = openStream(grpc, StreamCall)
  /\ stream' = enqueueFlush([NoStream EXCEPT !.state = "open",
                                             !.filter = buildFilterSet(vehicleIds),
                                             !.polledAt = now],
                            map, TRUE)
  /\ StreamUnchanged

\* the interval fires: enqueueFlush(false)
StreamPoll ==
  /\ stream.state = "open"
  /\ now >= stream.polledAt + pollIntervalMs
  /\ stream' = enqueueFlush([stream EXCEPT !.polledAt = now], map, FALSE)
  /\ UNCHANGED grpc
  /\ StreamUnchanged

\* the peer takes what was written; a flush that awaits 'drain' goes on
StreamDrain ==
  /\ stream.state # "none"
  /\ stream.buffered > 0
  /\ LET taken == [stream EXCEPT !.buffered = 0]
     IN stream' = IF taken.waiting
                    THEN runChain(runFlush([taken EXCEPT !.waiting = FALSE],
                                           taken.pending, taken.sendAll), map)
                    ELSE taken
  /\ UNCHANGED grpc
  /\ StreamUnchanged

\* call.on('cancelled'): cleanup
StreamCancel ==
  /\ stream.state = "open"
  /\ stream' = [stream EXCEPT !.state = "closed"]
  /\ grpc' = terminalEvent(grpc, StreamCall)
  /\ StreamUnchanged

NextStream ==
  \/ Tick
  \/ delivered < MaxMessages /\ \E raw \in FanoutMessages : OnMessage(raw)
  \/ \E vehicleIds \in {<<>>, <<"v1">>} : StreamVehicleSnapshots(vehicleIds)
  \/ StreamPoll
  \/ StreamDrain
  \/ StreamCancel

SpecStream == Init /\ [][NextStream]_vars

\* a client opens a further live stream
OpenCall(id) ==
  /\ ~grpc.calls[id].opened
  /\ grpc' = openStream(grpc, id)
  /\ UNCHANGED stream
  /\ StreamUnchanged

\* a terminal event reaches an opened stream (again, possibly)
TerminalEvent(id, ev) ==
  /\ grpc.calls[id].opened
  /\ grpc.calls[id].terminals < MaxTerminals
  /\ grpc' = terminalEvent(grpc, id)
  /\ UNCHANGED stream
  /\ StreamUnchanged

TerminalEvents == {"cancelled", "error", "close", "finish"}

NextStreams ==
  \/ \E id \in CallIds \ {StreamCall} : OpenCall(id)
  \/ \E id \in CallIds \ {StreamCall} : \E ev \in TerminalEvents : TerminalEvent(id, ev)

SpecStreams == Init /\ [][NextStreams]_vars

(***************************************************************************)
(* grpc-service.js, the unary and server-streaming handlers.  A thrown     *)
(* value is the record [truthy, code, message]; what reaches the caller is *)
(* the record [code, details, message].                                    *)
(***************************************************************************)
INTERNAL == 13
INVALID_ARGUMENT == 3

\* the truthiness of a JavaScript value
Truthy(v) ==
  CASE v.kind = "number" -> v.n # 0 /\ v.n # NaN
    [] v.kind = "string" -> v.s # ""
    [] v.kind = "undefined" -> FALSE
    [] v.kind = "null" -> FALSE
    [] OTHER -> TRUE

\* new Error(message) with error.code = code
Exception(code, message) == [truthy |-> TRUE, code |-> code, message |-> message]
\* throw undefined
ThrownUndefined == [truthy |-> FALSE, code |-> Undefined, message |-> Undefined]

Status(code, details, message) == [code |-> code, details |-> details, message |-> message]

\* mapError(err)
mapErrorAnyCode(err) ==
  IF err.truthy /\ err.code.kind = "number"
    THEN Status(err.code, Undefined, err.message)
    ELSE Status(JsNum(INTERNAL),
                IF err.truthy /\ Truthy(err.message)
                  THEN err.message ELSE JsStr("Internal server error"),
                Undefined)
mapError(err) ==
  IF err.truthy /\ Truthy(err.code) /\ err.code.kind = "number"
    THEN Status(err.code, Undefined, err.message)
    ELSE Status(JsNum(INTERNAL),
                IF err.truthy /\ Truthy(err.message)
                  THEN err.message ELSE JsStr("Internal server error"),
                Undefined)

\* a google.protobuf.Timestamp of a request
Timestamp(seconds, nanos) == [seconds |-> seconds, nanos |-> nanos]

\* null (<<>>) or the ISO string; every instant of the model lies in the
\* range of Date
timestampToIso(timestamp) ==
  IF ~IsFinite(timestamp.seconds) \/ ~IsFinite(timestamp.nanos)
    THEN <<>>
    ELSE <<ToISOString(timestamp.seconds * 1000 + (timestamp.nanos \div 1000000))>>

InvalidTimeRange == Exception(JsNum(INVALID_ARGUMENT), JsStr("Invalid time range"))

\* validateTimeRange(range) for a range with both endpoints: what it throws,
\* or the two ISO strings
validateTimeRangeStrict(range) ==
  LET startIso == timestampToIso(range.start[1])
      endIso == timestampToIso(range.end[1])
  IN IF startIso = <<>> \/ endIso = <<>>
       THEN [threw |-> <<InvalidTimeRange>>, start |-> <<>>, end |-> <<>>]
     ELSE IF startIso[1].ms > endIso[1].ms
       THEN [threw |-> <<InvalidTimeRange>>, start |-> <<>>, end |-> <<>>]
     ELSE [threw |-> <<>>, start |-> startIso, end |-> endIso]
validateTimeRange(range) ==
  LET startIso == timestampToIso(range.start[1])
      endIso == timestampToIso(range.end[1])
  IN IF startIso = <<>> \/ endIso = <<>>
       THEN [threw |-> <<InvalidTimeRange>>, start |-> <<>>, end |-> <<>>]
     ELSE IF startIso[1].ms >= endIso[1].ms
       THEN [threw |-> <<InvalidTimeRange>>, start |-> <<>>, end |-> <<>>]
     ELSE [threw |-> <<>>, start |-> startIso, end |-> endIso]

\* lines 160-169 and 200-209: the start and end handed to the repository
resolveRange(range) ==
  LET start == IF range.start # <<>> THEN timestampToIso(range.start[1]) ELSE <<>>
      end == IF range.end # <<>> THEN timestampToIso(range.end[1]) ELSE <<>>
  IN IF range.start # <<>> /\ range.end # <<>>
       THEN validateTimeRange(range)
       ELSE [threw |-> <<>>, start |-> start, end |-> end]

mapTelemetryPoint(event) ==
  [vehicleId |-> event.vehicleId,
   latitude |-> event.latitude,
   longitude |-> event.longitude,
   speedKmh |-> event.speedKmh,
   fuelLevel |-> event.fuelLevel,
   engineStatus |-> event.engineStatus,
   recordedAt |-> toTimestamp(toIsoSafely(event.recordedAt))]

\* the history handler's loop: the points with a recordedAt are written
writePoints(evs) ==
  LET points == [k \in 1..Len(evs) |-> mapTelemetryPoint(evs[k])]
  IN SelectSeq(points, LAMBDA p : p.recordedAt # NoTimestamp)

\* what a handler left behind: the request, the fault injected into the call
\* it makes, the status that reached the caller, whether the store was
\* queried, and the rows written or returned
Served(op, request, fault, error, queried, rows, token) ==
  [NoCall EXCEPT !.op = op, !.request = <<request>>, !.fault = fault,
                 !.error = error, !.queried = queried, !.rows = rows,
                 !.token = token]

\* the values thrown by the store or the repository in the model
ThrownValues ==
  { Exception(Undefined, JsStr("vehicle lookup failed")),
    Exception(JsStr("SQLITE_BUSY"), JsStr("db unavailable")),
    Exception(JsNum(14), JsStr("unavailable")),
    Exception(JsNum(0), JsStr("ok")),
    Exception(Undefined, JsStr("")),
    ThrownUndefined }

GrpcRanges ==
  { [start |-> r[1], end |-> r[2]] :
      r \in { <<<<>>, <<>>>>,
              <<<<Timestamp(14400, 0)>>, <<>>>>,
              <<<<Timestamp(14400, 0)>>, <<Timestamp(16200, 0)>>>>,
              <<<<Timestamp(16200, 0)>>, <<Timestamp(16200, 0)>>>>,
              <<<<Timestamp(16200, 999999)>>, <<Timestamp(16200, 0)>>>>,
              <<<<Timestamp(16200, 0)>>, <<Timestamp(14400, 0)>>>>,
              <<<<Timestamp(NaN, 0)>>, <<Timestamp(16200, 0)>>>> } }

GrpcUnchanged ==
  UNCHANGED <<now, map, onExpire, totalMessages, invalidMessages,
              clients, sock, delivered, produced, lastOp, writes,
              vehicles, events, distanceCache, rollups, uncaught, proc, sim, client>>

\* GetFleetSnapshot: vehicleStore.entries() may throw
GetFleetSnapshot(request, fault) ==
  /\ uncaught = 0
  /\ IF fault # <<>>
       THEN /\ call' = Served("GetFleetSnapshot", request, fault,
                              <<mapError(fault[1])>>, FALSE, <<>>, <<>>)
            /\ UNCHANGED messageTimestamps
       ELSE LET cached == collectVehicles(map, buildFilterSet(request.vehicleIds))
                snapshots == [i \in 1..Len(cached) |-> mapVehicleToSnapshot(cached[i]).message]
            IN /\ call' = Served("GetFleetSnapshot", request, fault, <<>>, FALSE,
                                 snapshots, <<>>)
               /\ messageTimestamps' =
                    IF request.includeMetrics
                      THEN pruneOldTimestamps(messageTimestamps, now, MessageWindowMs)
                      ELSE messageTimestamps
  /\ UNCHANGED <<stream, grpc>>
  /\ GrpcUnchanged

\* QueryTelemetryHistory: validateTimeRange or the repository may throw
GrpcQueryTelemetryHistory(request, fault) ==
  /\ uncaught = 0
  /\ LET range == resolveRange(request.range)
         page == queryTelemetryHistory(events,
                   [NoOptions EXCEPT !.vehicleIds = request.vehicleIds,
                                     !.start = range.start, !.end = range.end,
                                     !.limit = request.limit])
     IN call' =
          IF range.threw # <<>>
            THEN Served("QueryTelemetryHistory", request, fault,
                        <<mapError(range.threw[1])>>, FALSE, <<>>, <<>>)
          ELSE IF fault # <<>>
            THEN Served("QueryTelemetryHistory", request, fault,
                        <<mapError(fault[1])>>, TRUE, <<>>, <<>>)
          ELSE Served("QueryTelemetryHistory", request, fault, <<>>, TRUE,
                      writePoints(page.events), page.nextPageToken)
  /\ UNCHANGED <<messageTimestamps, stream, grpc>>
  /\ GrpcUnchanged

\* GetHistoricalAggregates: validateTimeRange or the repository may throw
GetHistoricalAggregates(request, fault) ==
  /\ uncaught = 0
  /\ LET range == resolveRange(request.range)
         response == queryHistoricalAggregates(rollups,
                       [NoOptions EXCEPT !.vehicleIds = request.vehicleIds,
                                         !.start = range.start, !.end = range.end,
                                         !.windowSeconds = request.windowSeconds])
     IN call' =
          IF range.threw # <<>>
            THEN Served("GetHistoricalAggregates", request, fault,
                        <<mapError(range.threw[1])>>, FALSE, <<>>, <<>>)
          ELSE IF fault # <<>>
            THEN Served("GetHistoricalAggregates", request, fault,
                        <<mapError(fault[1])>>, TRUE, <<>>, <<>>)
          ELSE Served("GetHistoricalAggregates", request, fault, <<>>, TRUE,
                      [k \in 1..Len(response) |->
                         [windowStart |-> toTimestamp(toIsoSafely(response[k].bucketStart)),
                          windowEnd |-> toTimestamp(toIsoSafely(response[k].bucketEnd)),
                          metrics |-> response[k].metrics]],
                      <<>>)
  /\ UNCHANGED <<messageTimestamps, stream, grpc>>
  /\ GrpcUnchanged

\* StreamVehicleSnapshots when vehicleStore.entries() throws inside the first
\* runFlush: the rejection reaches reportStreamError, which ignores a falsy
\* value and otherwise emits 'error', whose listener is cleanup
StreamOpenFails(fault) ==
  /\ stream.state = "none"
  /\ IF fault.truthy
       THEN /\ call' = Served("StreamVehicleSnapshots", [vehicleIds |-> <<>>], <<fault>>,
                              <<mapError(fault)>>, FALSE, <<>>, <<>>)
            /\ stream' = [NoStream EXCEPT !.state = "closed", !.polledAt = now]
            /\ grpc' = terminalEvent(openStream(grpc, StreamCall), StreamCall)
       ELSE /\ call' = Served("StreamVehicleSnapshots", [vehicleIds |-> <<>>], <<fault>>,
                              <<>>, FALSE, <<>>, <<>>)
            /\ stream' = [NoStream EXCEPT !.state = "open", !.polledAt = now]
            /\ grpc' = openStream(grpc, StreamCall)
  /\ UNCHANGED messageTimestamps
  /\ GrpcUnchanged

\* payloads of the handler specification
GrpcMessages == { RawAt("v1", 2, 15000000, 30), RawAt("v1", 0, 16200000, 50) }

SnapshotRequests ==
  { [vehicleIds |-> ids, includeMetrics |-> metrics] :
      ids \in {<<>>, <<"v1">>}, metrics \in BOOLEAN }

HistoryRequests ==
  { [vehicleIds |-> <<>>, range |-> range, limit |-> 2] : range \in GrpcRanges }

AggregateRequests ==
  { [vehicleIds |-> <<>>, range |-> range, windowSeconds |-> 0] : range \in GrpcRanges }

MaybeFault == {<<>>} \cup {<<f>> : f \in ThrownValues}

NextGrpc ==
  \/ Len(events) < MaxEvents
       /\ \E raw \in GrpcMessages : OnMessageRecorded(raw, "none")
  \/ RunRollupJob([NoOptions EXCEPT !.now = 21600000])
  \/ \E request \in SnapshotRequests : \E fault \in MaybeFault :
       GetFleetSnapshot(request, fault)
  \/ \E request \in HistoryRequests : \E fault \in MaybeFault :
       GrpcQueryTelemetryHistory(request, fault)
  \/ \E request \in AggregateRequests : \E fault \in MaybeFault :
       GetHistoricalAggregates(request, fault)
  \/ \E fault \in ThrownValues : StreamOpenFails(fault)

SpecGrpc == Init /\ [][NextGrpc]_vars

(***************************************************************************)
(* The dashboard's WebSocket client (websocket-client.mjs).  The browser   *)
(* moves a WebSocket from CONNECTING to OPEN, CLOSING and CLOSED and       *)
(* dispatches 'open', 'error' and 'close' to the listeners attached.       *)
(***************************************************************************)
\* notifyStatus(status) and onError(err): a callback of the application
notifyStatus(c) == [c EXCEPT !.lateCallback = @ \/ c.destroyed]

clearReconnectTimer(c) == [c EXCEPT !.reconnectTimer = FALSE]

\* socket.close(): a socket that is connecting or open starts to close
SocketCloseCall(sk) ==
  IF sk.readyState \in {"CONNECTING", "OPEN"}
    THEN [sk EXCEPT !.readyState = "CLOSING"] ELSE sk

\* connect(): a new WebSocket with the four listeners; the URL is valid
connect(c) ==
  LET c1 == notifyStatus(clearReconnectTimer(c))
      id == c1.created + 1
  IN [c1 EXCEPT !.created = id,
                !.socket = id,
                !.socks[id] = [readyState |-> "CONNECTING", listeners |-> TRUE],
                !.openedAfterDestroy = @ \/ c.destroyed]

\* disconnect(code, reason)
clientDisconnect(c) ==
  IF c.socket = 0 THEN c
  ELSE [c EXCEPT !.socks[c.socket] = [SocketCloseCall(@) EXCEPT !.listeners = FALSE],
                 !.socket = 0]

handleOpen(c) == notifyStatus([c EXCEPT !.reconnectAttempts = 0])

scheduleReconnect(c) ==
  [clearReconnectTimer(c) EXCEPT
     !.reconnectAttempts = IF @ + 1 < maxAttempts THEN @ + 1 ELSE maxAttempts,
     !.reconnectTimer = TRUE]

handleClose(c) == scheduleReconnect([notifyStatus(c) EXCEPT !.socket = 0])

\* handleSocketError: onError(err), then socket?.close() on the current socket
handleSocketError(c) ==
  LET c1 == notifyStatus(c)
  IN IF c1.socket = 0 THEN c1
     ELSE [c1 EXCEPT !.socks[c1.socket] = SocketCloseCall(@)]

manualReconnect(c) ==
  LET c1 == [c EXCEPT !.reconnectAttempts = 0]
      c2 == IF c1.socket # 0 /\ c1.socks[c1.socket].readyState \in {"CONNECTING", "OPEN"}
              THEN clientDisconnect(c1) ELSE c1
  IN connect(c2)

destroy(c) == [clientDisconnect(clearReconnectTimer(c)) EXCEPT !.destroyed = TRUE]

ClientUnchanged ==
  UNCHANGED <<now, map, onExpire, totalMessages, invalidMessages, messageTimestamps,
              clients, sock, delivered, produced, lastOp, writes,
              vehicles, events, distanceCache, rollups, uncaught, call, stream,
              grpc, proc, sim>>

\* the dashboard calls connect() when it starts
ClientConnect ==
  /\ client.created = 0
  /\ ~client.destroyed
  /\ client' = connect(client)
  /\ ClientUnchanged

\* the reconnect timer fires: connect()
ReconnectTimer ==
  /\ client.reconnectTimer
  /\ client.created < MaxSockets
  /\ client' = connect(client)
  /\ ClientUnchanged

\* the connection of a WebSocket is established: 'open'
SocketOpen(i) ==
  /\ client.socks[i].readyState = "CONNECTING"
  /\ LET opened == [client EXCEPT !.socks[i].readyState = "OPEN"]
     IN client' = IF client.socks[i].listeners THEN handleOpen(opened) ELSE opened
  /\ ClientUnchanged

\* the closing handshake of a WebSocket starts on the server's side
SocketClosing(i) ==
  /\ client.socks[i].readyState \in {"CONNECTING", "OPEN"}
  /\ client' = [client EXCEPT !.socks[i].readyState = "CLOSING"]
  /\ ClientUnchanged

\* the connection of a WebSocket fails: 'error', with 'close' to follow
SocketError(i) ==
  /\ client.socks[i].readyState \in {"CONNECTING", "OPEN"}
  /\ LET failed == [client EXCEPT !.socks[i].readyState = "CLOSING"]
     IN client' = IF client.socks[i].listeners THEN handleSocketError(failed) ELSE failed
  /\ ClientUnchanged

\* a WebSocket is closed: 'close'
SocketClose(i) ==
  /\ client.socks[i].readyState \in {"CONNECTING", "OPEN", "CLOSING"}
  /\ LET closed == [client EXCEPT !.socks[i].readyState = "CLOSED"]
     IN client' = IF client.socks[i].listeners THEN handleClose(closed) ELSE closed
  /\ ClientUnchanged

\* the user asks for a reconnect: reconnect()
ManualReconnect ==
  /\ ~client.destroyed
  /\ client.created > 0
  /\ client.created < MaxSockets
  /\ client' = manualReconnect(client)
  /\ ClientUnchanged

\* the dashboard is torn down: destroy()
Destroy ==
  /\ ~client.destroyed
  /\ client.created > 0
  /\ client' = destroy(client)
  /\ ClientUnchanged

NextClient ==
  \/ ClientConnect
  \/ ReconnectTimer
  \/ \E i \in 1..MaxSockets : SocketOpen(i)
  \/ \E i \in 1..MaxSockets : SocketClosing(i)
  \/ \E i \in 1..MaxSockets : SocketError(i)
  \/ \E i \in 1..MaxSockets : SocketClose(i)
  \/ ManualReconnect
  \/ Destroy

SpecClient == Init /\ [][NextClient]_vars

(***************************************************************************)
(* Properties of the vehicle store.                                        *)
(***************************************************************************)
Range(f) == {f[i] : i \in DOMAIN f}
LastIndex(w, k) == CHOOSE i \in 1..Len(w) : w[i] = k /\ \A j \in (i + 1)..Len(w) : w[j] # k

\* C2: after any sequence of set, delete and pruneExpired calls the store
\* holds at most `limit` entries.
C2_CacheBound == Len(map) <= limit

\* a set of a new id into a full store has just evicted an entry
C2_Witness ==
  /\ lastOp.op = "set"
  /\ ~lastOp.had
  /\ Len(map) = limit
  /\ Cardinality(Range(writes)) > limit

\* C6: pruneExpired(now) removes every entry with now - lastSeen >= ttl and
\* calls the handler exactly once for it, with (id, entry); every entry with
\* now - lastSeen < ttl stays as it is and gets no call.
C6_Step ==
  lastOp'.op = "pruneExpired" =>
    /\ \A i \in 1..Len(map) :
         LET e == map[i]
             seen == DateParse(e.value.lastSeen)
             callsFor == {c \in 1..Len(lastOp'.calls) : lastOp'.calls[c][1] = e.key}
         IN /\ (IsFinite(seen) /\ lastOp'.t - seen >= ttlMs) =>
                 /\ ~MapHas(map', e.key)
                 /\ onExpire # "null" =>
                      /\ Cardinality(callsFor) = 1
                      /\ \A c \in callsFor : lastOp'.calls[c] = <<e.key, e.value>>
            /\ (IsFinite(seen) /\ lastOp'.t - seen < ttlMs) =>
                 /\ MapHas(map', e.key)
                 /\ StoreGet(map', e.key) = e.value
                 /\ callsFor = {}
    /\ Keys(map') \subseteq Keys(map)

C6_TtlSweep == [][C6_Step]_vars

\* a sweep has removed an entry exactly ttl old, kept a younger one and
\* called the handler
C6_Witness ==
  /\ lastOp.op = "pruneExpired"
  /\ Len(lastOp.calls) = 1
  /\ DateParse(lastOp.calls[1][2].lastSeen) = lastOp.t - ttlMs
  /\ \E i \in 1..Len(map) :
       /\ IsFinite(DateParse(map[i].value.lastSeen))
       /\ DateParse(map[i].value.lastSeen) > lastOp.t - ttlMs

\* the n ids written most recently: those followed by fewer than n other ids
MostRecentlyWritten(w, n) ==
  {k \in Range(w) : Cardinality({w[j] : j \in (LastIndex(w, k) + 1)..Len(w)}) < n}

\* of the ids in ks, the one whose latest write is the oldest
LeastRecentlyWritten(w, ks) ==
  CHOOSE k \in ks : \A o \in ks : LastIndex(w, k) <= LastIndex(w, o)

C8_Step ==
  (lastOp'.op = "set" /\ Len(writes') = Len(writes) + 1) =>
    IF Len(map) = limit /\ ~MapHas(map, lastOp'.id)
      THEN Keys(map') = (Keys(map) \cup {lastOp'.id})
                          \ {LeastRecentlyWritten(writes, Keys(map))}
      ELSE Keys(map') = Keys(map) \cup {lastOp'.id}

\* C8: with set calls only, the store holds exactly the `limit` most recently
\* written distinct ids (all of them when fewer were written), and a set that
\* overflows the limit removes exactly one entry, the least recently written.
C8_LruEviction ==
  /\ [](Keys(map) = MostRecentlyWritten(writes, limit))
  /\ [](Len(map) = Cardinality(Keys(map)))
  /\ [][C8_Step]_vars

\* an id was written again and later a new id overflowed the store
C8_Witness ==
  /\ Len(writes) = 4
  /\ writes[1] = writes[3]
  /\ Cardinality(Range(writes)) = 3
  /\ ~lastOp.had
  /\ Keys(map) = {writes[3], writes[4]}

\* C9: right after set(id, entry), id is the last key in iteration order,
\* whether or not it was cached before.
C9_CacheRecency ==
  lastOp.op = "set" => (Len(map) > 0 /\ map[Len(map)].key = lastOp.id)

\* a set of an id that was cached, and not as the last key, moved it last
C9_Witness ==
  /\ lastOp.op = "set"
  /\ lastOp.had
  /\ Len(map) = 2
  /\ map[2].key = lastOp.id
  /\ Len(writes) >= 3
  /\ writes[Len(writes) - 1] # lastOp.id

(***************************************************************************)
(* Properties of the ingest handler and the fan-out.                       *)
(***************************************************************************)
\* C1: every broker message delivered to the handler raises exactly one of
\* totalMessages and invalidMessages by exactly 1 and leaves the other.
C1_Step ==
  delivered' = delivered + 1 =>
    \/ totalMessages' = totalMessages + 1 /\ invalidMessages' = invalidMessages
    \/ totalMessages' = totalMessages /\ invalidMessages' = invalidMessages + 1

C1_ValidationTotality == [][C1_Step]_vars

\* valid and rejected messages have both been delivered
C1_Witness ==
  /\ totalMessages = 1
  /\ invalidMessages = 2
  /\ delivered = 3

\* the observation of vehicle v produced last
LastProduced(p, v) ==
  p[CHOOSE i \in 1..Len(p) :
      p[i].vehicleId = v /\ \A j \in (i + 1)..Len(p) : p[j].vehicleId # v]

Observed(p) == {p[i].vehicleId : i \in 1..Len(p)}

\* distance over elapsed hours when curr is strictly later than prev, else 0
SpeedBetween(prev, curr) ==
  IF DateParse(curr.ts) > DateParse(prev.ts)
    THEN (haversine(prev.lat, prev.lng, curr.lat, curr.lng) * MsPerHour)
           \div (DateParse(curr.ts) - DateParse(prev.ts))
    ELSE 0

ValidMessageStep == Len(produced') = Len(produced) + 1
Current == produced'[Len(produced')]

\* C10 as claimed: the speed of an observation is derived from the vehicle's
\* previous observation in every ingest sequence; a first observation has 0.
C10_Step ==
  ValidMessageStep =>
    IF Current.vehicleId \in Observed(produced)
      THEN Current.speed = SpeedBetween(LastProduced(produced, Current.vehicleId), Current)
      ELSE Current.speed = 0

C10_SpeedOfConsecutive == [][C10_Step]_vars

\* C10 amended: the speed is derived from the previous observation when the
\* vehicle is still cached; an observation of a vehicle that is not cached
\* (never seen, evicted or expired) has speed 0.
C10_StepCached ==
  ValidMessageStep =>
    /\ IF MapHas(map, Current.vehicleId)
         THEN /\ Current.vehicleId \in Observed(produced)
              /\ Current.speed =
                   SpeedBetween(LastProduced(produced, Current.vehicleId), Current)
         ELSE Current.speed = 0
    /\ Current.vehicleId \notin Observed(produced) => ~MapHas(map, Current.vehicleId)

C10_SpeedWhileCached == [][C10_StepCached]_vars

\* v1 was seen, then v2, then v1 again half an hour later and 222 km away
C10_Witness ==
  /\ Len(produced) = 3
  /\ produced[1].vehicleId = "v1"
  /\ produced[2].vehicleId = "v2"
  /\ produced[3].vehicleId = "v1"
  /\ MapHas(map, "v2")
  /\ DateParse(produced[3].ts) = DateParse(produced[1].ts) + 1800000
  /\ produced[3].speed = 444

IsUpdate(f, v) == f.type = "vehicle_update" /\ f.vehicleId = v
IsRemoval(f, v) == f.type = "vehicle_remove" /\ f.vehicleId = v

IsPrefix(a, b) == Len(a) <= Len(b) /\ SubSeq(b, 1, Len(a)) = a

RECURSIVE IsSubseq(_, _)
IsSubseq(a, b) ==
  IF a = <<>> THEN TRUE
  ELSE IF b = <<>> THEN FALSE
  ELSE IF Head(a) = Head(b) THEN IsSubseq(Tail(a), Tail(b))
  ELSE IsSubseq(a, Tail(b))

ConnectionStep(s) == sock[s].readyState = "NONE" /\ sock'[s].readyState # "NONE"

\* C3 as claimed: on connecting, a subscriber is sent an update for every
\* cached vehicle, whatever the buffer does during the snapshot, and frames
\* are only ever added after those already sent, so that the snapshot comes
\* before every later update.
C3_Step ==
  \A s \in Sockets :
    /\ ConnectionStep(s) =>
         \A i \in 1..Len(map) :
           \E k \in 1..Len(sock'[s].inbox) :
             sock'[s].inbox[k] = formatVehiclePayload(map[i].value)
    /\ IsPrefix(sock[s].inbox, sock'[s].inbox)

C3_SnapshotThenUpdates == [][C3_Step]_vars

BroadcastStep ==
  \/ ValidMessageStep
  \/ delivered' = delivered /\ Len(map') < Len(map)

\* C4: a subscriber whose buffer is above the threshold when a broadcast
\* reaches it is sent nothing by it and leaves the subscriber set in that
\* broadcast; a socket that has left the set is sent nothing any more.
C4_Step ==
  \A s \in Sockets :
    /\ (BroadcastStep /\ s \in clients /\ sock[s].bufferedAmount > MAX_BUFFERED_BYTES) =>
         /\ sock'[s].inbox = sock[s].inbox
         /\ s \notin clients'
    /\ (sock[s].readyState # "NONE" /\ s \notin clients) =>
         /\ sock'[s].inbox = sock[s].inbox
         /\ s \notin clients'

C4_Backpressure == [][C4_Step]_vars

\* a subscriber was dropped with its buffer over the threshold, its buffer
\* has drained since, and another subscriber has been sent more than it
C4_Witness ==
  \E s, o \in Sockets :
    /\ sock[s].readyState = "OPEN"
    /\ s \notin clients
    /\ sock[s].bufferedAmount = 0
    /\ o \in clients
    /\ Len(sock[o].inbox) > Len(sock[s].inbox)
    /\ Len(produced) = MaxFanout

UpdatesFor(frames, v) == SelectSeq(frames, LAMBDA f : IsUpdate(f, v))

ProducedFrames == [i \in 1..Len(produced) |-> formatVehiclePayload(produced[i])]

\* C5: for every subscriber and vehicle, the updates the subscriber is sent
\* for the vehicle are in the order in which the handler produced them.
C5_FifoPerVehicle ==
  \A s \in Sockets : \A v \in Observed(produced) :
    IsSubseq(UpdatesFor(sock[s].inbox, v), UpdatesFor(ProducedFrames, v))

\* a subscriber holds the snapshot of v1 and a later, different update of it,
\* in the order of production
C5_Witness ==
  \E s \in Sockets :
    LET u == UpdatesFor(sock[s].inbox, "v1")
    IN /\ Len(u) = 2
       /\ u[1] # u[2]
       /\ u = ProducedFrames

\* the keys a sweep step removes, and the place of v among them
Removed == Keys(map) \ Keys(map')
RankRemoved(v) ==
  Cardinality({i \in 1..Len(map) : map[i].key \in Removed /\ i <= MapGet(map, v)})

NewFrames(s) == SubSeq(sock'[s].inbox, Len(sock[s].inbox) + 1, Len(sock'[s].inbox))

\* C7: when the sweep removes a vehicle, every attached subscriber that is
\* open and under the threshold when the removal reaches it (the frames sent
\* to it earlier in the sweep counted) is sent exactly one vehicle_remove for
\* that vehicle; nobody is sent more than one.
C7_Step ==
  (delivered' = delivered /\ Len(map') < Len(map)) =>
    \A v \in Removed : \A s \in Sockets :
      LET n == Len(SelectSeq(NewFrames(s), LAMBDA f : IsRemoval(f, v)))
      IN /\ n <= 1
         /\ ( /\ s \in clients
              /\ sock[s].readyState = "OPEN"
              /\ sock[s].bufferedAmount + (RankRemoved(v) - 1) * PayloadBytes
                   <= MAX_BUFFERED_BYTES ) => n = 1

EventsOf(log, v) == SelectSeq(log, LAMBDA e : e.vehicle_id = v)
PersistedVehicles == {events[i].vehicle_id : i \in 1..Len(events)}

RECURSIVE SumDistance(_)
SumDistance(log) ==
  IF log = <<>> THEN 0 ELSE Head(log).distance_km + SumDistance(Tail(log))

C11_CacheMatchesLog ==
  \A v \in PersistedVehicles :
    LET own == EventsOf(events, v)
    IN /\ Cardinality({r \in distanceCache : r.vehicle_id = v}) = 1
       /\ Row(distanceCache, v).last_event_id = own[Len(own)].event_id
       /\ Row(distanceCache, v).cumulative_km = SumDistance(own)

C11_FailStep == call'.threw => UNCHANGED <<vehicles, events, distanceCache>>

\* C11: every vehicle with a persisted event has one distance-cache row, whose
\* lastEventId is the id of the vehicle's latest event and whose cumulativeKm
\* is the sum of distanceKm over its events; a record-telemetry call that
\* fails leaves the vehicle rows, the event log and the distance cache as
\* they were.
C11_AtomicRecord == []C11_CacheMatchesLog /\ [][C11_FailStep]_vars

\* a call has failed after two events of one vehicle were stored, 222 km apart
C11_Witness ==
  /\ call.threw
  /\ Len(events) = 2
  /\ events[1].vehicle_id = events[2].vehicle_id
  /\ Row(distanceCache, events[2].vehicle_id).cumulative_km = 222
  /\ Row(distanceCache, events[2].vehicle_id).last_event_id = 2

\* C12 as claimed: the distanceKm of every persisted event is the great-circle
\* distance from the position of the vehicle's previous persisted event, and 0
\* when it has none, whether or not the vehicle left the cache in between.
C12_DistanceFromPreviousEvent ==
  \A i \in 1..Len(events) :
    LET e == events[i]
        earlier == {j \in 1..(i - 1) : events[j].vehicle_id = e.vehicle_id}
    IN IF earlier = {} THEN e.distance_km = 0
       ELSE LET p == events[CHOOSE j \in earlier : \A k \in earlier : k <= j]
            IN e.distance_km = haversine(p.latitude, p.longitude, e.latitude, e.longitude)

C13_Step ==
  \A r \in distanceCache :
    /\ HasRow(distanceCache', r.vehicle_id)
    /\ Row(distanceCache', r.vehicle_id).cumulative_km >= r.cumulative_km

\* C13: over any sequence of record-telemetry calls, no vehicle's cumulativeKm
\* in the distance cache ever decreases (and its row is never removed).
C13_DistanceMonotone == [][C13_Step]_vars

\* a vehicle moved 222 km and then reported the same position again
C13_Witness ==
  /\ Len(events) = 3
  /\ events[2].distance_km = 222
  /\ events[3].distance_km = 0
  /\ events[3].vehicle_id = events[2].vehicle_id
  /\ Row(distanceCache, events[3].vehicle_id).cumulative_km = 222

C14_Step ==
  (delivered' = delivered + 1 /\ call'.op = "recorded" /\ call'.threw) =>
    /\ uncaught' = 0
    /\ totalMessages' = totalMessages + 1
    /\ Len(messageTimestamps') > 0
    /\ Len(produced') = Len(produced) + 1
    /\ LET e == produced'[Len(produced')]
       IN /\ MapHas(map', e.vehicleId)
          /\ StoreGet(map', e.vehicleId) = e
          /\ \A s \in clients :
               CanSend(sock[s]) =>
                 sock'[s].inbox = Append(sock[s].inbox, formatVehiclePayload(e))

C14_NextStep ==
  (call.threw /\ delivered' = delivered + 1) =>
    /\ call'.op = "recorded" => totalMessages' = totalMessages + 1
    /\ (call'.op = "recorded" /\ ~call'.threw) =>
         /\ Len(events') = Len(events) + 1
         /\ events'[Len(events')].vehicle_id = produced'[Len(produced')].vehicleId
    /\ call'.op = "rejected" => invalidMessages' = invalidMessages + 1

\* C14: when recordTelemetry throws for a valid message, the message is still
\* written to the cache, counted in totalMessages and broadcast to the
\* subscribers that can be sent to; the exception does not leave the handler,
\* and the next message is handled as usual.
C14_PersistFailureContained ==
  /\ [](call.threw => uncaught = 0)
  /\ [][C14_Step]_vars
  /\ [][C14_NextStep]_vars

\* the first message failed to persist and the second was stored; the
\* subscriber was sent both
C14_Witness ==
  /\ Len(produced) = 2
  /\ Len(events) = 1
  /\ call.op = "recorded"
  /\ ~call.threw
  /\ produced[1].ts # produced[2].ts
  /\ events[1].recorded_at = produced[2].ts
  /\ sock["s1"].inbox = ProducedFrames

C15_Step ==
  (delivered' = delivered + 1 /\ call'.op = "rejected") =>
    /\ invalidMessages' = invalidMessages + 1
    /\ UNCHANGED <<map, messageTimestamps, totalMessages, clients, sock,
                   vehicles, events, distanceCache, rollups>>

\* C15: a message that is not JSON or fails validation changes invalidMessages
\* only: the cache, the rate window, totalMessages and the telemetry store
\* stay as they are and no subscriber is sent anything.
C15_InvalidFrame == [][C15_Step]_vars

\* a message was rejected while a vehicle was cached and stored and a
\* subscriber was attached and able to receive
C15_Witness ==
  /\ call.op = "rejected"
  /\ invalidMessages = 1
  /\ Len(events) = 1
  /\ Len(map) = 1
  /\ Len(messageTimestamps) = 1
  /\ "s1" \in clients
  /\ CanSend(sock["s1"])

(***************************************************************************)
(* Properties of the rollup job, the history query and the aggregates.     *)
(***************************************************************************)
\* the persisted events of the row's vehicle recorded in [bucketStart, bucketEnd)
BucketEvents(row) ==
  {i \in 1..Len(events) :
     /\ events[i].vehicle_id = row.vehicle_id
     /\ events[i].recorded_at.ms >= row.bucket_start.s * 1000
     /\ events[i].recorded_at.ms < row.bucket_end.s * 1000}

DirectAggregate(row) ==
  LET members == BucketEvents(row)
  IN /\ members # {}
     /\ row.sample_count = Cardinality(members)
     /\ row.avg_speed_kmh.num * Cardinality(members) =
          row.avg_speed_kmh.den * SumFn([i \in members |-> events[i].speed_kmh])
     /\ row.max_speed_kmh = MaxOf({events[i].speed_kmh : i \in members})
     /\ row.min_fuel_level = MinOf({events[i].fuel_level : i \in members})
     /\ row.total_distance_km = SumFn([i \in members |-> events[i].distance_km])

\* C16 as claimed: after a rollup run, every row it wrote has sampleCount,
\* avgSpeed, maxSpeed, minFuel and totalDistance equal to the count, mean
\* speed, max speed, min fuel and sum of distanceKm over exactly the persisted
\* events of its vehicle whose recordedAt lies in [bucketStart, bucketEnd).
C16_RollupCorrect ==
  call.op = "rollup" => \A k \in 1..Len(call.rows) : DirectAggregate(call.rows[k])

C17_Step ==
  (/\ call.op = "rollup"
   /\ call'.op = "rollup"
   /\ call'.options = call.options
   /\ events' = events) => rollups' = rollups

\* C17: running the rollup computation a second time over the same range,
\* with no event appended in between, leaves the rollup table as it was after
\* the first run: same keys, same metric values, no extra rows.
C17_RollupIdempotent == [][C17_Step]_vars

\* the same run was made twice in a row over two events of one vehicle in one
\* bucket, 222 km apart, and the second run wrote its rows again
C17_Witness ==
  /\ call.op = "rollup"
  /\ call.repeat
  /\ call.rows # <<>>
  /\ \E r \in rollups : r.sample_count = 2 /\ r.total_distance_km > 0

\* one history call over the same range that no limit cuts short
Unbounded(args) ==
  queryTelemetryHistory(events, [args EXCEPT !.limit = HistoryMaxLimit,
                                             !.pageToken = <<>>]).events

\* C18 as claimed: for any persisted events, in any order of recordedAt
\* relative to eventId, and any limit k >= 1, following the continuation token
\* until none is returned yields every matching event exactly once, in the
\* order of one unbounded history call over the same range.
C18_Pagination ==
  (call.op = "history" /\ call.token = <<>>) => call.pages = Unbounded(call.options)

Materialised == {rollupWindows[i] : i \in 1..Len(rollupWindows)}
Dividers(W) == {S \in Materialised : W % S = 0}

\* the rows of window S that the query's filters select
SourceRows(S, args) ==
  {r \in rollups :
     /\ r.bucket_end.s - r.bucket_start.s = S
     /\ args.vehicleIds # <<>> =>
          r.vehicle_id \in {args.vehicleIds[i] : i \in 1..Len(args.vehicleIds)}
     /\ args.start # <<>> => r.bucket_end.s > Datetime(args.start[1]).s
     /\ args.end # <<>> => r.bucket_start.s < Datetime(args.end[1]).s}

\* the bucket of width W starting at second b, recombined from the source rows
\* whose span lies inside it
Recombined(source, W, b) ==
  LET inside == {r \in source : r.bucket_start.s >= b /\ r.bucket_end.s <= b + W}
      samples == SumFn([r \in inside |-> r.sample_count])
      speeds == SumFn([r \in inside |->
                         (r.avg_speed_kmh.num * r.sample_count) \div r.avg_speed_kmh.den])
  IN [bucketStart |-> ToISOString(b * 1000),
      bucketEnd |-> ToISOString((b + W) * 1000),
      sampleCount |-> samples,
      metrics |-> [AVG_SPEED_KMH |-> Ratio(speeds, samples),
                   MAX_SPEED_KMH |-> MaxOf({r.max_speed_kmh : r \in inside}),
                   MIN_FUEL_LEVEL |-> MinOf({r.min_fuel_level : r \in inside}),
                   TOTAL_DISTANCE_KM |-> SumFn([r \in inside |-> r.total_distance_km])]]

\* C19 as claimed: aggregates for a window W that is not materialised are
\* computed from the rows of the smallest materialised window that divides W;
\* each returned bucket has the sampleCount-weighted mean speed, the max
\* speed, the min fuel and the summed distance and sampleCount of exactly the
\* source rows whose span lies inside that bucket.
C19_DerivedWindow ==
  LET W == call.options.windowSeconds
      source == SourceRows(MinOf(Dividers(W)), call.options)
      starts == SortInts({(r.bucket_start.s \div W) * W : r \in source})
  IN (/\ call.op = "aggregates"
      /\ W > 0
      /\ W \notin Materialised
      /\ Dividers(W) # {}) =>
       call.rows = [k \in 1..Len(starts) |-> Recombined(source, W, starts[k])]

(***************************************************************************)
(* Properties of the live snapshot stream.                                 *)
(***************************************************************************)
Idle(st) == ~st.waiting /\ st.queue = <<>>
NewOut == SubSeq(stream'.out, Len(stream.out) + 1, Len(stream'.out))
Snapshots(list) == [i \in 1..Len(list) |-> mapVehicleToSnapshot(list[i]).message]

\* the message last emitted for the vehicle on the stream, if any
LastEmitted(out, id) ==
  LET own == SelectSeq(out, LAMBDA o : o.vehicleId = id)
  IN IF own = <<>> THEN <<>> ELSE <<own[Len(own)]>>

\* the matching cached vehicles whose lastSeen is not the one last emitted
Changed(st, m) ==
  SelectSeq(collectVehicles(m, st.filter),
            LAMBDA v : LastEmitted(st.out, v.vehicleId) = <<>>
                       \/ LastEmitted(st.out, v.vehicleId)[1].lastSeen
                            # mapVehicleToSnapshot(v).message.lastSeen)

C20_OpenStep ==
  (stream.state = "none" /\ stream'.state = "open" /\ Idle(stream')) =>
    stream'.out = Snapshots(collectVehicles(map, stream'.filter))

C20_PollStep ==
  (/\ stream.state = "open"
   /\ Idle(stream)
   /\ stream'.polledAt # stream.polledAt
   /\ Idle(stream')) =>
    /\ NewOut = Snapshots(Changed(stream, map))
    /\ \A v \in Range(collectVehicles(map, stream.filter)) :
         LastEmitted(stream'.out, v.vehicleId) = <<mapVehicleToSnapshot(v).message>>

\* C20 as claimed: a live snapshot stream emits, on open, one snapshot for
\* every cached vehicle matching its filter; on each later poll it emits
\* exactly the matching vehicles whose lastSeen differs from the value last
\* emitted for that vehicle on this stream and nothing for the others, so
\* that after the poll the snapshot last emitted for every matching cached
\* vehicle is the one of its cached state.
C20_LiveSnapshots == [][C20_OpenStep]_vars /\ [][C20_PollStep]_vars

\* a step of the clock, the ingest handler, the poll timer or the client's
\* cancel: any step but the transport's drain
NotDrainStep ==
  \/ now' # now
  \/ delivered' # delivered
  \/ stream'.polledAt # stream.polledAt
  \/ stream'.state # stream.state

C21_PausedStep ==
  (stream.state = "open" /\ stream.buffered >= StreamHighWater /\ NotDrainStep) =>
    /\ stream'.out = stream.out
    /\ stream'.tracker = stream.tracker

\* a flush that collected the cache in this step ran to its end: a poll, or a
\* drain behind which polls were waiting
C21_ResumedStep ==
  (/\ stream.state = "open"
   /\ stream'.state = "open"
   /\ Idle(stream')
   /\ \/ stream'.polledAt # stream.polledAt
      \/ stream.waiting /\ stream.queue # <<>> /\ stream'.buffered < stream.buffered + Len(stream'.out) - Len(stream.out)) =>
    \A v \in Range(collectVehicles(map, stream.filter)) :
      /\ LastEmitted(stream'.out, v.vehicleId) # <<>>
      /\ LastEmitted(stream'.out, v.vehicleId)[1].lastSeen
           = mapVehicleToSnapshot(v).message.lastSeen

LiveCalls == {id \in CallIds : grpc.calls[id].opened /\ grpc.calls[id].terminals = 0}

\* C22: after any sequence of stream opens and terminal events (several for
\* the same stream included) activeStreamCount() and state.grpcStreams both
\* equal the number of streams opened with no terminal event yet, the poll
\* timer of every terminated stream is cleared, and each stream has
\* decremented the counter exactly once when it terminated and never before.
C22_StreamAccounting ==
  /\ Cardinality(grpc.activeStreams) = Cardinality(LiveCalls)
  /\ grpc.grpcStreams = Cardinality(LiveCalls)
  /\ \A id \in CallIds :
       /\ grpc.calls[id].terminals > 0 =>
            grpc.calls[id].interval = "cleared" /\ grpc.calls[id].decrements = 1
       /\ grpc.calls[id].terminals = 0 => grpc.calls[id].decrements = 0
       /\ (grpc.calls[id].opened /\ grpc.calls[id].terminals = 0) =>
            grpc.calls[id].interval = "set"

\* one stream got two terminal events while another one is still live
C22_Witness ==
  \E a, b \in CallIds :
    /\ grpc.calls[a].terminals >= 2
    /\ b \in LiveCalls
    /\ grpc.grpcStreams = 1

(***************************************************************************)
(* Properties of the gRPC handlers.                                        *)
(***************************************************************************)
\* the request of the last call carries both endpoints, finite, with
\* start >= end
EmptyRange(request) ==
  LET range == request.range
  IN /\ range.start # <<>> /\ range.end # <<>>
     /\ IsFinite(range.start[1].seconds) /\ IsFinite(range.end[1].seconds)
     /\ \/ range.start[1].seconds > range.end[1].seconds
        \/ /\ range.start[1].seconds = range.end[1].seconds
           /\ range.start[1].nanos >= range.end[1].nanos

\* C23: GetHistoricalAggregates and QueryTelemetryHistory called with both
\* endpoints of the range and start >= end fail with INVALID_ARGUMENT, do not
\* query the store and emit no rows.
C23_EmptyRangeRejected ==
  (call.op \in {"QueryTelemetryHistory", "GetHistoricalAggregates"} /\ EmptyRange(call.request[1])) =>
    /\ call.error # <<>>
    /\ call.error[1].code = JsNum(INVALID_ARGUMENT)
    /\ ~call.queried
    /\ call.rows = <<>>
    /\ call.token = <<>>

\* a history call with start = end over a store that holds an event at that
\* very instant was rejected
C23_Witness ==
  /\ call.op = "QueryTelemetryHistory"
  /\ call.request[1].range.start = call.request[1].range.end
  /\ call.request[1].range.start # <<>>
  /\ \E i \in 1..Len(events) :
       events[i].recorded_at.ms = call.request[1].range.start[1].seconds * 1000
  /\ call.error # <<>>

\* the last call met the injected exception
Raised ==
  /\ call.fault # <<>>
  /\ call.op \in {"GetFleetSnapshot", "StreamVehicleSnapshots"} \/ call.queried

\* C24 as stated: an exception without a numeric status code raised while
\* serving GetFleetSnapshot, StreamVehicleSnapshots, QueryTelemetryHistory or
\* GetHistoricalAggregates reaches the caller as INTERNAL with the exception's
\* message as detail, and an exception that carries a numeric status code
\* keeps that code.
C24_ErrorMapping ==
  Raised =>
    /\ call.error # <<>>
    /\ IF call.fault[1].code.kind = "number"
         THEN call.error[1].code = call.fault[1].code
         ELSE /\ call.error[1].code = JsNum(INTERNAL)
              /\ call.error[1].details = call.fault[1].message

\* C24, amended: an exception whose code is a nonzero integer keeps that code;
\* every other thrown value reaches the caller as INTERNAL, with the
\* exception's message as detail when the message is a non-empty string and
\* with 'Internal server error' otherwise; on StreamVehicleSnapshots a falsy
\* thrown value is not reported at all and the stream stays open.
C24_ErrorMappingNonzero ==
  Raised =>
    LET thrown == call.fault[1]
    IN IF ~thrown.truthy /\ call.op = "StreamVehicleSnapshots"
         THEN call.error = <<>> /\ stream.state = "open"
       ELSE IF thrown.truthy /\ thrown.code.kind = "number" /\ thrown.code.n # 0
         THEN call.error # <<>> /\ call.error[1].code = thrown.code
       ELSE /\ call.error # <<>>
            /\ call.error[1].code = JsNum(INTERNAL)
            /\ call.error[1].details =
                 IF thrown.truthy /\ thrown.message.kind = "string" /\ thrown.message.s # ""
                   THEN thrown.message ELSE JsStr("Internal server error")

\* the repository threw an exception with code 0 under GetHistoricalAggregates
\* and the caller got INTERNAL
C24_Witness ==
  /\ call.op = "GetHistoricalAggregates"
  /\ Raised
  /\ call.fault[1].code = JsNum(0)
  /\ call.error # <<>>
  /\ call.error[1].code = JsNum(INTERNAL)

(***************************************************************************)
(* Properties of the fan-out under backpressure, the stats and the rate    *)
(* window.                                                                 *)
(***************************************************************************)
\* a subscriber with an open socket whose buffer is above the threshold
\* leaves the broadcast set in this step
DroppedForBackpressure(s) ==
  /\ s \in clients
  /\ s \notin clients'
  /\ sock[s].readyState = "OPEN"
  /\ sock[s].bufferedAmount > MAX_BUFFERED_BYTES

\* C25: when the fan-out finds a subscriber's outbound buffer above the
\* threshold it drops the message, removes the subscriber from the broadcast
\* set and closes the subscriber's transport.
C25_Step ==
  \A s \in Sockets :
    DroppedForBackpressure(s) =>
      /\ sock'[s].inbox = sock[s].inbox
      /\ sock'[s].readyState \in {"CLOSING", "CLOSED"}
C25_BackpressureCloses == [][C25_Step]_vars

NonNegative(q) == q.num >= 0 /\ q.den > 0

\* C26: in every reachable state (after any sequence of ingests, subscriber
\* connects and disconnects, backpressure drops and expiry sweeps) every field
\* of the /stats response served in that state is >= 0.
C26_StatsOf(response) ==
  /\ response.totalMessages >= 0
  /\ response.invalidMessages >= 0
  /\ response.vehiclesTracked >= 0
  /\ response.connectedClients >= 0
  /\ NonNegative(response.messageRatePerSecond)
  /\ NonNegative(response.windowSeconds)
StatsNow ==
  buildStats(messageTimestamps, totalMessages, invalidMessages, map, clients, now).response

InWindow(t) == {i \in 1..Len(call.arrivals) : t - call.arrivals[i] <= call.windowMs}

\* C27: for calls made with non-decreasing now, rate(now) returns the number
\* of recorded arrivals t with now - t <= W divided by W/1000 (0 when W is 0),
\* no retained timestamp is older than now - W after record(now) or rate(now),
\* and trimming a second time at the same now changes nothing.
C27_RateWindow ==
  /\ call.op = "rate" =>
       call.rate[1] = IF call.windowMs = 0 THEN Quotient(0, 1)
                      ELSE Quotient(Cardinality(InWindow(call.options.now)) * 1000,
                                    call.windowMs)
  /\ call.op \in {"record", "rate"} =>
       \A i \in 1..Len(messageTimestamps) :
         ~(messageTimestamps[i] < call.options.now - call.windowMs)
  /\ LET once == pruneOldTimestamps(messageTimestamps, now, call.windowMs)
     IN pruneOldTimestamps(once, now, call.windowMs) = once

\* a rate returned for a window from which an earlier arrival has dropped out
\* while a later one is still inside
C27_Witness ==
  /\ call.op = "rate"
  /\ call.windowMs > 0
  /\ call.rate[1].num > 0
  /\ Cardinality(InWindow(call.options.now)) < Len(call.arrivals)

(***************************************************************************)
(* Properties of shutdown.                                                 *)
(***************************************************************************)
\* C28: once a termination signal has started shutdown, no broker message
\* delivered afterwards is processed by the ingest pipeline: the cache, the
\* counters, the rate window and the fan-out see no further update.
C28_Step ==
  (proc.shuttingDown /\ delivered' # delivered) =>
    /\ map' = map
    /\ totalMessages' = totalMessages
    /\ invalidMessages' = invalidMessages
    /\ messageTimestamps' = messageTimestamps
    /\ \A s \in Sockets : sock'[s].inbox = sock[s].inbox
C28_NoIngestAfterShutdown == [][C28_Step]_vars

(***************************************************************************)
(* Properties of the simulator.                                            *)
(***************************************************************************)
\* C29: the simulator started with --max-messages M > 0 and any number of
\* vehicles hands at most M messages to the broker client before it shuts
\* down.
C29_MaxMessages == sim.handed <= maxMessages

(***************************************************************************)
(* Properties of the scheduled rollup run.                                 *)
(***************************************************************************)
\* the lower bound of a catch-up run for the window: the aligned floor of
\* lastProcessedEnd - catchUp * S, raised to the aligned oldest event
CatchUpStart(table, log, windowSeconds) ==
  Max(alignToWindow(getLastRollupEnd(table, windowSeconds)
                      - windowSeconds * Max(1, rollupCatchUpWindows), windowSeconds),
      alignToWindow(getEarliestEventEpoch(log), windowSeconds))

\* C30: a non-forced rollup run without a start override, for a window of
\* which rollups exist already, reads events from
\* alignedFloor(lastProcessedEnd - catchUp * S), raised to the aligned oldest
\* event, and from no earlier instant: it writes no bucket that starts before
\* that bound.
C30_Step ==
  (call'.op = "rollup" /\ call'.options.force = <<FALSE>> /\ call'.options.start = <<>>) =>
    \A k \in 1..Len(call'.rows) :
      LET row == call'.rows[k]
          windowSeconds == StrftimeS(row.bucket_end) - StrftimeS(row.bucket_start)
      IN IsFinite(getLastRollupEnd(rollups, windowSeconds)) =>
           StrftimeS(row.bucket_start) >= CatchUpStart(rollups, events, windowSeconds)
C30_CatchUpLowerBound == [][C30_Step]_vars

(***************************************************************************)
(* Order of the ingest steps.                                              *)
(***************************************************************************)
\* step a comes before step b in the sequence of steps
Precedes(steps, a, b) ==
  \E i, j \in 1..Len(steps) : i < j /\ steps[i] = a /\ steps[j] = b

\* C31: for every valid message the cache update and the rate-window record
\* come first, then the event is persisted, and only then is the enriched
\* record broadcast: the event is already stored when the broadcast is made
C31_IngestOrder ==
  call.op = "recorded" =>
    /\ Precedes(call.steps, "vehicleStore.set", "recordTelemetry")
    /\ Precedes(call.steps, "recordTimestamp", "recordTelemetry")
    /\ Precedes(call.steps, "recordTelemetry", "broadcastUpdate")
    /\ (~call.threw => call.eventsAtBroadcast = Len(events))

(***************************************************************************)
(* No write after a terminal event of the live snapshot stream.            *)
(***************************************************************************)
\* C32: once the live snapshot stream has observed cancellation (or another
\* terminal event) no further write is issued on the call, whether a flush
\* was waiting for drain or had been queued by an earlier poll tick
C32_NoWriteAfterCancel ==
  [][stream.state = "closed" => stream'.out = stream.out]_vars

\* the stream was cancelled while a flush was waiting for drain with vehicles
\* still to write and with a flush of a later poll tick queued behind it
C32_Witness ==
  /\ stream.state = "closed"
  /\ grpc.calls[StreamCall].closed
  /\ stream.waiting
  /\ stream.pending # <<>>
  /\ stream.queue # <<>>

(***************************************************************************)
(* Subscribers whose transport is not open.                                *)
(***************************************************************************)
\* C33: a subscriber whose transport is not in the open state when a
\* broadcast reaches it is sent nothing and is removed from the subscriber
\* set by that broadcast
C33_Step ==
  BroadcastStep =>
    \A s \in clients :
      sock[s].readyState # "OPEN" =>
        /\ sock'[s].inbox = sock[s].inbox
        /\ s \notin clients'
C33_NotOpenSkippedAndRemoved == [][C33_Step]_vars

\* a socket in its closing handshake, with room in its buffer, is no longer a
\* subscriber: a broadcast found it not open and removed it
C33_Witness ==
  \E s \in Sockets :
    /\ sock[s].readyState = "CLOSING"
    /\ sock[s].bufferedAmount <= MAX_BUFFERED_BYTES
    /\ s \notin clients

(***************************************************************************)
(* Capacity eviction and TTL expiry.                                       *)
(***************************************************************************)
\* the vehicle is cached and its entry is at least ttl old
ExpiredNow(v) ==
  /\ MapHas(map, v)
  /\ IsFinite(DateParse(StoreGet(map, v).lastSeen))
  /\ now - DateParse(StoreGet(map, v).lastSeen) >= ttlMs

\* C34: a capacity eviction performed by set never invokes the removal
\* callback and never causes a vehicle_remove broadcast; vehicle_remove is
\* broadcast only for TTL expiry: every vehicle_remove frame a step sends is
\* sent by the sweep, for a vehicle whose entry had reached the ttl
C34_Step ==
  \A s \in Sockets :
    \A k \in (Len(sock[s].inbox) + 1)..Len(sock'[s].inbox) :
      sock'[s].inbox[k].type = "vehicle_remove" =>
        /\ delivered' = delivered
        /\ ExpiredNow(sock'[s].inbox[k].vehicleId)
C34_EvictionSilent == [][C34_Step]_vars

\* a subscriber has been sent the updates of more vehicles than the cache
\* holds and no vehicle_remove: the cache is full and an entry was evicted
C34_Witness ==
  \E s \in clients :
    /\ Len(map) = limit
    /\ Cardinality({sock[s].inbox[k].vehicleId : k \in 1..Len(sock[s].inbox)}) > limit
    /\ \A k \in 1..Len(sock[s].inbox) : sock[s].inbox[k].type = "vehicle_update"

(***************************************************************************)
(* An expiry handler that throws.                                          *)
(***************************************************************************)
\* the entries of the store that a sweep at time t finds expired
ExpiredAt(t) ==
  {i \in 1..Len(map) :
     /\ IsFinite(DateParse(map[i].value.lastSeen))
     /\ t - DateParse(map[i].value.lastSeen) >= ttlMs}

\* C35: if the removal callback throws for one expired entry during a sweep,
\* that entry stays removed, the exception does not escape pruneExpired, and
\* every other expired entry of the same sweep is still removed and gets its
\* callback
C35_Step ==
  ( /\ lastOp'.op = "pruneExpired"
    /\ \E i \in ExpiredAt(lastOp'.t) : handlerThrows(onExpire, map[i].key) ) =>
      /\ uncaught' = uncaught
      /\ \A i \in ExpiredAt(lastOp'.t) :
           /\ ~MapHas(map', map[i].key)
           /\ Cardinality({c \in 1..Len(lastOp'.calls) :
                             lastOp'.calls[c] = <<map[i].key, map[i].value>>}) = 1
C35_ThrowingHandler == [][C35_Step]_vars

\* the handler threw for the first expired entry of a sweep and was still
\* called for a later one; both are gone
C35_Witness ==
  /\ lastOp.op = "pruneExpired"
  /\ Len(lastOp.calls) >= 2
  /\ handlerThrows(onExpire, lastOp.calls[1][1])
  /\ \A c \in 1..Len(lastOp.calls) : ~MapHas(map, lastOp.calls[c][1])
  /\ uncaught = 0

(***************************************************************************)
(* Shutdown terminates and runs once.                                      *)
(***************************************************************************)
\* C36: after a termination signal the process exits, through the callback
\* of the broker disconnect or, if that callback never fires, through the
\* force-exit timer; a second signal received while shutdown is in progress
\* starts no second shutdown sequence
C36_ShutdownTerminatesOnce ==
  /\ (proc.shuttingDown ~> proc.exited)
  /\ [](proc.sequences <= 1)
  /\ [][(proc.shuttingDown /\ proc'.signals > proc.signals) =>
          (proc'.sequences = proc.sequences /\ sock' = sock /\ clients' = clients)]_vars

\* two signals were received, the shutdown sequence ran once, and the process
\* was ended by the force-exit timer
C36_Witness ==
  /\ proc.signals = 2
  /\ proc.sequences = 1
  /\ proc.exited
  /\ proc.exitedBy = "forceExitTimer"

(***************************************************************************)
(* Completeness of the rollups.                                            *)
(***************************************************************************)
\* floor(now / S) * S for the run recorded in call, in seconds
ClosedBefore(S) == ((call.options.now \div 1000) \div S) * S

\* of a set of rollup rows, those of a vehicle for window S
RowsOf(rows, v, S) ==
  {r \in rows : r.vehicle_id = v /\ r.bucket_end.s - r.bucket_start.s = S}

\* the rows the run recorded in call wrote
Written == {call.rows[i] : i \in 1..Len(call.rows)}

\* the persisted events of a vehicle recorded before second b
EventsBefore(v, b) ==
  {i \in 1..Len(events) : events[i].vehicle_id = v /\ events[i].recorded_at.ms < b * 1000}

\* C37: after a rollup run at time now with no start or end override, for
\* every configured window S and every vehicle, each persisted event with
\* recordedAt earlier than floor(now/S)*S is counted in exactly one rollup
\* row of window S, so the sum of sampleCount over the vehicle's rows of
\* window S equals the number of such events, also for events appended
\* after their bucket had first been rolled up
C37_RollupCompleteAllRows ==
  (call.op = "rollup" /\ call.options.start = <<>> /\ call.options.end = <<>>) =>
    \A k \in 1..Len(rollupWindows) : \A v \in {"v1", "v2"} :
      SumFn([r \in RowsOf(rollups, v, rollupWindows[k]) |-> r.sample_count])
        = Cardinality(EventsBefore(v, ClosedBefore(rollupWindows[k])))

\* C37, amended: the rows such a run writes for window S are in the table
\* and count every event of the vehicle recorded before floor(now/S)*S once;
\* rows of window S left by a run with an end override or a later now are not
\* part of the sum
C37_RollupComplete ==
  (call.op = "rollup" /\ call.options.start = <<>> /\ call.options.end = <<>>) =>
    \A k \in 1..Len(rollupWindows) : \A v \in {"v1", "v2"} :
      /\ RowsOf(Written, v, rollupWindows[k]) \subseteq rollups
      /\ SumFn([r \in RowsOf(Written, v, rollupWindows[k]) |-> r.sample_count])
           = Cardinality(EventsBefore(v, ClosedBefore(rollupWindows[k])))

\* an event was appended to a bucket rolled up before (the row of the extra
\* 7200-second window still counts one sample) and the run without overrides
\* that followed counts both events in the row of the configured window
C37_Witness ==
  /\ call.op = "rollup"
  /\ call.options.start = <<>>
  /\ call.options.end = <<>>
  /\ call.options.windows = <<>>
  /\ \E r, o \in rollups :
       /\ r.vehicle_id = o.vehicle_id
       /\ r.bucket_start = o.bucket_start
       /\ r.bucket_end.s - r.bucket_start.s = 3600
       /\ o.bucket_end.s - o.bucket_start.s = 7200
       /\ r.sample_count = 2
       /\ o.sample_count = 1

(***************************************************************************)
(* Rollup rows cover closed buckets only.                                  *)
(***************************************************************************)
\* C38: a rollup run at time now without an end override writes only closed
\* buckets: every row of window S it writes has bucketEnd <= floor(now/S)*S,
\* so no row covers a time bucket that can still receive on-time events
C38_ClosedBucketsOnly ==
  (call.op = "rollup" /\ call.options.end = <<>>) =>
    \A r \in Written :
      /\ r \in rollups
      /\ r.bucket_end.s <= ClosedBefore(r.bucket_end.s - r.bucket_start.s)

(***************************************************************************)
(* One flush at a time on a live snapshot stream.                          *)
(***************************************************************************)
\* a poll tick that fires while a flush waits for drain starts no flush and
\* writes nothing: its flush is queued behind the waiting one
C39_PollStep ==
  (stream.waiting /\ stream'.polledAt # stream.polledAt) =>
    /\ stream'.out = stream.out
    /\ stream'.waiting
    /\ stream'.pending = stream.pending
    /\ stream'.running = stream.running
    /\ stream'.queue = Append(stream.queue, FALSE)

\* at drain the waiting flush goes on first: the queued flushes write only
\* after it has ended, and nothing if it has to wait again
C39_DrainStep ==
  (stream.waiting /\ stream'.buffered < stream.buffered) =>
    LET alone == runFlush([stream EXCEPT !.buffered = 0, !.waiting = FALSE,
                                         !.queue = <<>>],
                          stream.pending, stream.sendAll)
    IN /\ IsPrefix(alone.out, stream'.out)
       /\ alone.waiting => (stream'.out = alone.out /\ stream'.queue = stream.queue)

\* C39: on a single live snapshot stream at most one flush runs at a time: a
\* poll tick that fires while an earlier flush is still running or waiting
\* for drain does not start a concurrent flush, and the writes of two flushes
\* are never interleaved
C39_OneFlushAtATime ==
  /\ [](stream.running <= 1)
  /\ [](stream.running = 1 <=> stream.waiting)
  /\ [][C39_PollStep]_vars
  /\ [][C39_DrainStep]_vars

\* a flush waits for drain with vehicles still to write while the flush of
\* a later poll tick is queued behind it
C39_Witness ==
  /\ stream.state = "open"
  /\ stream.waiting
  /\ stream.running = 1
  /\ stream.pending # <<>>
  /\ stream.queue = <<FALSE>>

(***************************************************************************)
(* The dashboard's WebSocket client.                                       *)
(***************************************************************************)
\* the WebSockets with the client's listeners attached that are connecting
\* or open
LiveSockets ==
  {i \in 1..MaxSockets : /\ client.socks[i].listeners
                         /\ client.socks[i].readyState \in {"CONNECTING", "OPEN"}}

\* C40: after any sequence of connect, open, close, error, reconnect() and
\* destroy() events the client has at most one socket with its handlers
\* attached that is connecting or open, and after destroy() it opens no
\* further connection and delivers no further callbacks
C40_SingleSocket ==
  /\ Cardinality(LiveSockets) <= 1
  /\ ~client.openedAfterDestroy
  /\ ~client.lateCallback

====
